---- MODULE Spec2Model ----
(***************************************************************************)
(* Verification model of the VisualEditor data model: the linear data      *)
(* (ve.dm.ElementLinearData), the node capability registry                 *)
(* (ve.dm.NodeFactory), and the document / transaction engine built on     *)
(* them.                                                                   *)
(*                                                                         *)
(* Linear data items are records [k, t, close, ann]:                       *)
(*   k = "string"   a bare character t                                     *)
(*   k = "array"    an annotated character [ t, ann ]                      *)
(*   k = "element"  an element { type: t } or { type: '/' + t } (close)    *)
(* Offsets are the JavaScript ones (0 .. length); the item at JavaScript   *)
(* index i is data[i + 1].                                                 *)
(*                                                                         *)
(* A JavaScript boolean expression that may throw is a three-valued        *)
(* string: T, F or Throw. An offset-valued call that throws yields Thrown. *)
(***************************************************************************)
EXTENDS Integers, Sequences, FiniteSets, TLC

VARIABLES
    data,   \* the linear data array of the ElementLinearData under test
    call,   \* the last method call applied to it
    flag,   \* three-valued result of the last predicate call
    ret,    \* result of the last offset-valued call
    walk,   \* a getRelativeOffset call run one loop iteration at a time
    heap,   \* the arrays the documents hold by reference: object id -> contents
    docs,   \* the documents: their data and store references and their node tree
    tx,     \* the transaction being built, or committed
    event,  \* the last document operation and the error it raised
    snapshot, \* the data and store of a document just before its last commit
    surface \* the editing surface (ve.ce.Surface) over the data: selection, slugs, paste

linVars == <<data, call, flag, ret, walk>>

docVars == <<heap, docs, tx, event, snapshot, surface>>

vars == <<data, call, flag, ret, walk, heap, docs, tx, event, snapshot, surface>>

\* the surface of a specification that has none
NoSurface == <<>>

(***************************************************************************)
(* Bounds of the model                                                     *)
(***************************************************************************)
\* longest arbitrary (possibly unbalanced) data sequence
MaxRawLen == 2
\* longest balanced data sequence
MaxLen == 5
\* largest magnitude of the distance argument
MaxDistance == 2
\* longest balanced data sequence walked one iteration at a time
MaxWalkLen == 3
\* the longest balanced sequence of annotated items
MaxAnnLen == 4
\* the longest balanced sequence given to sanitize
MaxSanLen == 4
\* the longest balanced sequence given to sanitize under a rule set
MaxRuleLen == 4
\* the longest balanced sequence given to hasContent
MaxContentLen == 5
\* the longest text of the paragraph given to trimOuterSpaceFromRange
MaxTrimLen == 3
\* the longest data the cursor offset search is applied to
MaxCursorLen == 4
\* the most characters of the paragraph a paste starts on
MaxPasteLen == 2
\* the most transactions the pastes of one run issue
MaxPasteTransactions == 4
\* the most characters of a paragraph or heading a key is pressed in
MaxKeyTextLen == 2
\* the most entries of the storage clearLocalStorage runs on
MaxStorageLen == 3
\* the most characters of the text the surface observer reports
MaxChangeLen == 2
\* the most selectionStart and selectionEnd events of one run
MaxSelectionEvents == 4
\* the most surfaces created on one target
MaxSurfaces == 3
\* the most resize events a toolbar emits in one run
MaxResizes == 4
\* the most callbacks of a toolbar waiting at one time
MaxToolbarTimers == 2
\* longest arbitrary (possibly unbalanced) data sequence a document is made from
MaxDocRawLen == 2
\* longest data a document may grow to
MaxDocLen == 6
\* most operations in one transaction
MaxOps == 3

(***************************************************************************)
(* Three-valued booleans                                                   *)
(***************************************************************************)
T == "true"
F == "false"
Throw == "throw"
Thrown == -2

B3(b) == IF b THEN T ELSE F
\* a || b
Or3(a, b) == IF a = Throw THEN Throw ELSE IF a = T THEN T ELSE b
\* a && b
And3(a, b) == IF a = Throw THEN Throw ELSE IF a = F THEN F ELSE b
\* !a
Not3(a) == IF a = Throw THEN Throw ELSE IF a = T THEN F ELSE T

(***************************************************************************)
(* The node capability registry                                            *)
(***************************************************************************)
\* childNodeTypes / parentNodeTypes: null is [null |-> TRUE, types |-> {}]
Null == [null |-> TRUE, types |-> {}]
Types(S) == [null |-> FALSE, types |-> S]

\* the static properties a node class inherits from ve.dm.Node
nodeStatics ==
    [childNodeTypes |-> Null, parentNodeTypes |-> Null, suggestedParentNodeTypes |-> Null,
     canContainContent |-> FALSE, isContent |-> FALSE,
     isWrapped |-> TRUE, isUnwrappable |-> TRUE,
     blacklistedAnnotationTypes |-> {},
     isFocusable |-> FALSE, hasSignificantWhitespace |-> FALSE,
     handlesOwnChildren |-> FALSE, ignoreChildren |-> FALSE,
     isInternal |-> FALSE, isDeletable |-> TRUE,
     defaultAttributes |-> <<>>]

registry ==
    [ paragraph   |-> [nodeStatics EXCEPT !.canContainContent = TRUE],
      heading     |-> [nodeStatics EXCEPT !.canContainContent = TRUE,
                                          !.defaultAttributes = [level |-> 1]],
      preformatted |-> [nodeStatics EXCEPT !.canContainContent = TRUE,
                                          !.hasSignificantWhitespace = TRUE,
                                          !.blacklistedAnnotationTypes = {"link"}],
      text        |-> [nodeStatics EXCEPT !.childNodeTypes = Types({}),
                                          !.isContent = TRUE,
                                          !.isWrapped = FALSE],
      inlineImage |-> [nodeStatics EXCEPT !.childNodeTypes = Types({}),
                                          !.isContent = TRUE,
                                          !.isFocusable = TRUE],
      break       |-> [nodeStatics EXCEPT !.childNodeTypes = Types({}),
                                          !.isContent = TRUE],
      list        |-> [nodeStatics EXCEPT !.childNodeTypes = Types({"listItem"}),
                                          !.defaultAttributes = [style |-> "bullet"]],
      listItem    |-> [nodeStatics EXCEPT !.parentNodeTypes = Types({"list"}),
                                          !.suggestedParentNodeTypes = Types({"list"})],
      alienBlock  |-> [nodeStatics EXCEPT !.childNodeTypes = Types({}),
                                          !.isFocusable = TRUE,
                                          !.handlesOwnChildren = TRUE],
      blockImage  |-> [nodeStatics EXCEPT !.childNodeTypes = Types({"imageCaption"}),
                                          !.ignoreChildren = TRUE,
                                          !.isFocusable = TRUE],
      internalList |-> [nodeStatics EXCEPT !.childNodeTypes = Types({"internalItem"}),
                                          !.isInternal = TRUE,
                                          !.isUnwrappable = FALSE,
                                          !.isDeletable = FALSE],
      internalItem |-> [nodeStatics EXCEPT !.parentNodeTypes = Types({"internalList"}),
                                          !.isInternal = TRUE] ]

Registered == DOMAIN registry

\* Object.prototype.hasOwnProperty.call( this.registry, type )
hasOwnProperty(type) == type \in Registered

getChildNodeTypesIsNull(type) ==
    IF hasOwnProperty(type) THEN B3(registry[type].childNodeTypes.null) ELSE Throw

getParentNodeTypesIsNull(type) ==
    IF hasOwnProperty(type) THEN B3(registry[type].parentNodeTypes.null) ELSE Throw

canNodeHaveChildren(type) ==
    IF hasOwnProperty(type)
    THEN LET types == registry[type].childNodeTypes
         IN  B3(types.null \/ Cardinality(types.types) > 0)
    ELSE Throw

canNodeHaveChildrenNotContent(type) ==
    IF hasOwnProperty(type)
    THEN And3(canNodeHaveChildren(type),
              B3(~registry[type].canContainContent /\ ~registry[type].isContent))
    ELSE Throw

\* the mutant of canNodeContainContent: it answers whether the node can have children
canNodeContainContent_AnyChildren(type) == canNodeHaveChildren(type)

canNodeContainContent(type) ==
    IF hasOwnProperty(type) THEN B3(registry[type].canContainContent) ELSE Throw

isNodeContent(type) ==
    IF hasOwnProperty(type) THEN B3(registry[type].isContent) ELSE Throw

shouldIgnoreChildren(type) ==
    IF hasOwnProperty(type) THEN B3(registry[type].ignoreChildren) ELSE Throw

doesNodeHaveSignificantWhitespace(type) ==
    IF hasOwnProperty(type) THEN B3(registry[type].hasSignificantWhitespace) ELSE Throw

isNodeInternal_Default(type) ==
    IF hasOwnProperty(type) THEN B3(registry[type].isInternal) ELSE F

isNodeInternal(type) ==
    IF hasOwnProperty(type) THEN B3(registry[type].isInternal) ELSE Throw

isNodeWrapped(type) ==
    IF hasOwnProperty(type) THEN B3(registry[type].isWrapped) ELSE Throw

isNodeUnwrappable(type) ==
    IF hasOwnProperty(type)
    THEN And3(isNodeWrapped(type), B3(registry[type].isUnwrappable))
    ELSE Throw

isNodeFocusable(type) ==
    IF hasOwnProperty(type) THEN B3(registry[type].isFocusable) ELSE Throw

doesNodeHandleOwnChildren(type) ==
    IF hasOwnProperty(type) THEN B3(registry[type].handlesOwnChildren) ELSE Throw

isNodeDeletable(type) ==
    IF hasOwnProperty(type) THEN B3(registry[type].isDeletable) ELSE Throw

\* the class of an annotation and the class it extends
annotationSuperclass ==
    [name \in {"link", "textStyle", "textStyle/bold"} |->
        IF name = "textStyle/bold" THEN "textStyle" ELSE "annotation"]

\* annotation instanceof ve.dm.annotationFactory.lookup( name )
RECURSIVE isInstanceOf(_, _)
isInstanceOf(class, name) ==
    \/ class = name
    \/ class \in DOMAIN annotationSuperclass /\ isInstanceOf(annotationSuperclass[class], name)

\* annotation is the class of the annotation
canNodeTakeAnnotationType(type, annotation) ==
    IF ~hasOwnProperty(type) THEN Throw
    ELSE B3(~\E name \in registry[type].blacklistedAnnotationTypes :
                 isInstanceOf(annotation, name))

\* the value of a query that returns an object: the object, or the error thrown
Answer(value) == [thrown |-> FALSE, value |-> value]
UnknownNodeType == [thrown |-> TRUE, value |-> "Unknown node type"]

getChildNodeTypes(type) ==
    IF hasOwnProperty(type) THEN Answer(registry[type].childNodeTypes) ELSE UnknownNodeType

getParentNodeTypes(type) ==
    IF hasOwnProperty(type) THEN Answer(registry[type].parentNodeTypes) ELSE UnknownNodeType

getSuggestedParentNodeTypes(type) ==
    IF hasOwnProperty(type) THEN Answer(registry[type].suggestedParentNodeTypes)
    ELSE UnknownNodeType

\* ve.extendObject( {}, defaults, attributes ); an object is a function from its
\* keys, {} and undefined are <<>>
extendObject(defaults, attributes) ==
    [key \in DOMAIN defaults \cup DOMAIN attributes |->
        IF key \in DOMAIN attributes THEN attributes[key] ELSE defaults[key]]

\* the element { type: type, attributes: ... }; it has no attributes property
\* when attributes is <<>>
getDataElement(type, attributes) ==
    IF hasOwnProperty(type)
    THEN Answer([type |-> type,
                 attributes |-> extendObject(registry[type].defaultAttributes, attributes)])
    ELSE UnknownNodeType

(***************************************************************************)
(* Linear data items                                                       *)
(***************************************************************************)
Undefined == [k |-> "undefined", t |-> "", close |-> FALSE, ann |-> <<>>]
Char(c) == [k |-> "string", t |-> c, close |-> FALSE, ann |-> <<>>]
AnnChar(c, a) == [k |-> "array", t |-> c, close |-> FALSE, ann |-> a]
Open(type) == [k |-> "element", t |-> type, close |-> FALSE, ann |-> <<>>]
Close(type) == [k |-> "element", t |-> type, close |-> TRUE, ann |-> <<>>]

\* this.getData( offset ): undefined outside the array
getData(d, offset) ==
    IF offset >= 0 /\ offset < Len(d) THEN d[offset + 1] ELSE Undefined

getLength(d) == Len(d)

isElementData(d, offset) == getData(d, offset).k = "element"

isOpenElementData(d, offset) ==
    isElementData(d, offset) /\ ~getData(d, offset).close

isCloseElementData(d, offset) ==
    isElementData(d, offset) /\ getData(d, offset).close

\* the type without the leading slash; "" stands for undefined (no type property)
getType(d, offset) ==
    IF isElementData(d, offset) THEN getData(d, offset).t ELSE ""

\* new ve.Range( from, to ): start and end are from and to in ascending order;
\* NoRange is a range argument that is not given
NoRange == [defined |-> FALSE, from |-> 0, to |-> 0, start |-> 0, end |-> 0]
Range(from, to) ==
    [defined |-> TRUE,
     from |-> from,
     to |-> to,
     start |-> IF from < to THEN from ELSE to,
     end |-> IF from < to THEN to ELSE from]

(***************************************************************************)
(* Offset classification                                                   *)
(***************************************************************************)
isString(item) == item.k = "string"
isArray(item) == item.k = "array"
\* '/' + left.type === right.type
isEmptyPair(left, right) ==
    left.k = "element" /\ right.k = "element" /\ ~left.close /\ right.close /\ left.t = right.t

isContentOffset(d, offset) ==
    IF offset = 0 \/ offset = getLength(d) THEN F
    ELSE LET left == getData(d, offset - 1)
             right == getData(d, offset)
         IN  And3(B3(left.k # "undefined" /\ right.k # "undefined"),
               Or3(B3(isString(left) \/ isString(right)),
               Or3(B3(isArray(left) \/ isArray(right)),
               \* right of a leaf
               Or3(And3(B3(left.k = "element" /\ left.close), isNodeContent(left.t)),
               \* left of a leaf
               Or3(And3(B3(right.k = "element" /\ ~right.close), isNodeContent(right.t)),
               \* inside empty content branch
                   And3(B3(isEmptyPair(left, right)), canNodeContainContent(left.t)))))))

\* the mutant of onlyInUnrestrictedMode: the mode test inverted
onlyInUnrestrictedMode_Inverted(unrestricted, rule) == Or3(B3(unrestricted), rule)

\* !unrestricted || rule: the rule only applies in unrestricted mode
onlyInUnrestrictedMode(unrestricted, rule) == Or3(B3(~unrestricted), rule)

isStructuralOffsetInterior(d, offset, unrestricted) ==
    LET left == getData(d, offset - 1)
        right == getData(d, offset)
    IN  And3(B3(left.k = "element" /\ right.k = "element"),
          \* right of a branch
          Or3(And3(B3(left.close),
              And3(Or3(canNodeHaveChildren(left.t), Not3(isNodeContent(left.t))),
                   onlyInUnrestrictedMode(unrestricted, getParentNodeTypesIsNull(left.t)))),
          \* left of a branch
          Or3(And3(B3(~right.close),
              And3(Or3(canNodeHaveChildren(right.t), Not3(isNodeContent(right.t))),
                   onlyInUnrestrictedMode(unrestricted, getParentNodeTypesIsNull(right.t)))),
          \* inside empty non-content branch
              And3(B3(isEmptyPair(left, right)),
              And3(canNodeHaveChildrenNotContent(left.t),
                   onlyInUnrestrictedMode(unrestricted, getChildNodeTypesIsNull(left.t)))))))

\* the mutant of isStructuralOffset: the test for the edges left out
isStructuralOffset_NoEdges(d, offset, unrestricted) ==
    isStructuralOffsetInterior(d, offset, unrestricted)

isStructuralOffset(d, offset, unrestricted) ==
    IF offset = 0 \/ offset = getLength(d) THEN T
    ELSE isStructuralOffsetInterior(d, offset, unrestricted)

\* callback.apply( this, [ offset ].concat( args ) )
callback(d, cb, offset) ==
    IF cb.name = "isContentOffset" THEN isContentOffset(d, offset)
    ELSE isStructuralOffset(d, offset, cb.unrestricted)

(***************************************************************************)
(* getRelativeOffset                                                       *)
(***************************************************************************)
ContentOffset == [name |-> "isContentOffset", unrestricted |-> FALSE]
StructuralOffset(unrestricted) == [name |-> "isStructuralOffset", unrestricted |-> unrestricted]

Abs(n) == IF n < 0 THEN -n ELSE n

\* The outcome of a call: the returned offset (Thrown when the call throws) and
\* whether the walk turned around.
Outcome(value, turnedAround) == [value |-> value, turnedAround |-> turnedAround]

\* we're about to reach the edge
aboutToReachEdge(d, s) ==
    \/ s.direction < 0 /\ s.i = 0
    \/ s.direction > 0 /\ (s.i = getLength(d) \/ getType(d, s.i - 1) = "internalList")

\* the mutant of notIgnoringChildren: the depth is not looked at
notIgnoringChildren_Always(ignoreChildrenDepth) == TRUE

\* !ignoreChildrenDepth: the walk is not inside a node whose children are ignored
notIgnoringChildren(ignoreChildrenDepth) == ignoreChildrenDepth = 0

\* the mutant of loopExhausted: the last offset found is forgotten
loopExhausted_NotFound(s) == Outcome(-1, s.turnedAround)

\* return offset, after the loop: the last valid offset stepped on, or -1
loopExhausted(s) == Outcome(s.offset, s.turnedAround)

\* the mutant of validAtStart: the start is never looked at before turning around
validAtStart_Never(d, cb, start) == F

\* Before we turn around, let's see if we are at a valid position
validAtStart(d, cb, start) == callback(d, cb, start)

\* the mutant of mayTurnAround: the walk may turn around again and again
mayTurnAround_Always(s) == s.steps = 0

\* Don't keep turning around over and over; only turn around if not a single
\* step could be taken
mayTurnAround(s) == ~s.turnedAround /\ s.steps = 0

\* A call goes on with the loop variables s, or returns value.
Continue(s) == [done |-> FALSE, value |-> 0, s |-> s]
Return(value, s) == [done |-> TRUE, value |-> value, s |-> s]

\* One iteration of the while loop, i being inside the data; s holds the loop
\* variables [i, direction, distance, steps, turnedAround, ignoreChildrenDepth,
\* offset].
loopIteration(d, start, cb, s) ==
    LET dataOffset == s.i + (IF s.direction > 0 THEN -1 ELSE 0)
        ignores == And3(B3(isElementData(d, dataOffset)),
                        shouldIgnoreChildren(getType(d, dataOffset)))
        isOpen == isOpenElementData(d, dataOffset)
        entered == (s.direction > 0 /\ isOpen) \/ (s.direction < 0 /\ ~isOpen)
        depth == IF ignores = T
                 THEN (IF entered THEN s.ignoreChildrenDepth + 1
                                  ELSE s.ignoreChildrenDepth - 1)
                 ELSE s.ignoreChildrenDepth
        valid == callback(d, cb, s.i)
    IN  IF ignores = Throw THEN Return(Thrown, s)
        ELSE IF depth < 0 THEN Return(-1, s)
        ELSE IF valid = Throw THEN Return(Thrown, s)
        ELSE IF valid = T THEN
            IF notIgnoringChildren(depth)
            THEN IF s.distance = s.steps + 1
                 THEN Return(s.i, s)
                 ELSE Continue([s EXCEPT !.steps = s.steps + 1, !.offset = s.i,
                                         !.ignoreChildrenDepth = depth,
                                         !.i = s.i + s.direction])
            ELSE Continue([s EXCEPT !.ignoreChildrenDepth = depth,
                                    !.i = s.i + s.direction])
        ELSE IF mayTurnAround(s) /\ aboutToReachEdge(d, s) THEN
            LET stay == validAtStart(d, cb, start)
            IN  IF stay = Throw THEN Return(Thrown, s)
                ELSE IF stay = T THEN Return(start, s)
                ELSE Continue([s EXCEPT !.direction = -s.direction,
                                        !.i = start - s.direction,
                                        !.distance = 1,
                                        !.turnedAround = TRUE,
                                        !.ignoreChildrenDepth = 0])
        ELSE Continue([s EXCEPT !.ignoreChildrenDepth = depth,
                                !.i = s.i + s.direction])

\* i >= 0 && i <= this.getLength()
loopCondition(d, s) == s.i >= 0 /\ s.i <= getLength(d)

\* The while loop, run to its end
RECURSIVE getRelativeOffsetLoop(_, _, _, _)
\* after one iteration r: the call returns or the loop goes on
RECURSIVE afterIteration(_, _, _, _)
afterIteration(d, start, cb, r) ==
    IF r.done THEN Outcome(r.value, r.s.turnedAround)
    ELSE getRelativeOffsetLoop(d, start, cb, r.s)

getRelativeOffsetLoop(d, start, cb, s) ==
    IF ~loopCondition(d, s) THEN loopExhausted(s)
    ELSE afterIteration(d, start, cb, loopIteration(d, start, cb, s))

\* the mutant of initialLoopState: the direction is the sign of the distance, also
\* at the two edges of the data
initialLoopState_SignOnly(d, offset, distance) ==
    LET direction == IF distance > 0 THEN 1 ELSE -1
    IN  [i |-> offset + direction, direction |-> direction, distance |-> Abs(distance),
         steps |-> 0, turnedAround |-> FALSE, ignoreChildrenDepth |-> 0, offset |-> -1]

\* The initial values of the loop variables for a non-zero distance
initialLoopState(d, offset, distance) ==
    LET direction == IF offset <= 0 THEN 1
                     ELSE IF offset >= getLength(d) THEN -1
                     ELSE IF distance > 0 THEN 1 ELSE -1
    IN  [i |-> offset + direction, direction |-> direction, distance |-> Abs(distance),
         steps |-> 0, turnedAround |-> FALSE, ignoreChildrenDepth |-> 0, offset |-> -1]

\* the mutant of getRelativeOffsetOutcome: a zero distance gets no special case
getRelativeOffsetOutcome_NoZeroCase(d, offset, distance, cb) ==
    getRelativeOffsetLoop(d, offset, cb, initialLoopState(d, offset, distance))

\* The call: the test for a zero distance, then the loop
getRelativeOffsetOutcome(d, offset, distance, cb) ==
    LET atStart == IF distance = 0 THEN callback(d, cb, offset) ELSE F
    IN  IF atStart = Throw THEN Outcome(Thrown, FALSE)
        ELSE IF atStart = T THEN Outcome(offset, FALSE)
        ELSE getRelativeOffsetLoop(d, offset, cb,
                initialLoopState(d, offset, IF distance = 0 THEN 1 ELSE distance))

getRelativeOffset(d, offset, distance, cb) ==
    getRelativeOffsetOutcome(d, offset, distance, cb).value

getRelativeContentOffset(d, offset, distance) ==
    getRelativeOffset(d, offset, distance, ContentOffset)

getRelativeStructuralOffset(d, offset, distance, unrestricted) ==
    IF distance = 0 /\ (offset = 0 \/ offset = getLength(d)) THEN offset
    ELSE getRelativeOffset(d, offset, distance, StructuralOffset(unrestricted))

(***************************************************************************)
(* getNearestContentOffset and getNearestStructuralOffset.  The optional   *)
(* direction argument is either left out (undefined) or a number.          *)
(***************************************************************************)
NoDirection == [given |-> FALSE, value |-> 0]
Direction(v) == [given |-> TRUE, value |-> v]

\* direction === undefined
isUndefined(direction) == ~direction.given
\* !direction
isFalsy(direction) == ~direction.given \/ direction.value = 0
\* direction > 0 ? 1 : -1
signOf(direction) == IF direction.given /\ direction.value > 0 THEN 1 ELSE -1

closerOf_PreferLeft(offset, left, right) ==
    IF offset - left <= right - offset THEN left ELSE right

\* offset - left < right - offset ? left : right
closerOf(offset, left, right) ==
    IF offset - left < right - offset THEN left ELSE right

\* both searches are made, the left one first; an exception of either ends the call
bothSides(offset, left, right) ==
    IF left = Thrown \/ right = Thrown THEN Thrown ELSE closerOf(offset, left, right)

getNearestContentOffset(d, offset, direction) ==
    LET valid == isContentOffset(d, offset)
    IN  IF valid = Throw THEN Thrown
        ELSE IF valid = T THEN offset
        ELSE IF isUndefined(direction)
        THEN bothSides(offset, getRelativeContentOffset(d, offset, -1),
                       getRelativeContentOffset(d, offset, 1))
        ELSE getRelativeContentOffset(d, offset, signOf(direction))

getNearestStructuralOffset(d, offset, direction, unrestricted) ==
    LET valid == isStructuralOffset(d, offset, unrestricted)
    IN  IF valid = Throw THEN Thrown
        ELSE IF valid = T THEN offset
        ELSE IF isFalsy(direction)
        THEN bothSides(offset, getRelativeStructuralOffset(d, offset, -1, unrestricted),
                       getRelativeStructuralOffset(d, offset, 1, unrestricted))
        ELSE getRelativeStructuralOffset(d, offset, signOf(direction), unrestricted)

(***************************************************************************)
(* Input data                                                              *)
(***************************************************************************)
\* one character stands for all of them: no operation here looks at its value
Characters == {"a"}
\* a type name no node class is registered under
UnregisteredTypes == {"unknown"}
\* the registered types used in the short sequences
RawTypes ==
    {"paragraph", "inlineImage", "list", "listItem", "alienBlock", "blockImage",
     "internalList"}
RawItems ==
    {Char(c) : c \in Characters} \cup {AnnChar(c, <<0>>) : c \in Characters}
    \cup {Open(t) : t \in RawTypes \cup UnregisteredTypes}
    \cup {Close(t) : t \in RawTypes \cup UnregisteredTypes}

\* every sequence of at most MaxRawLen items, balanced or not
RawData == UNION {[1..n -> RawItems] : n \in 0..MaxRawLen}

\* the element types used in the longer, balanced sequences
BalancedTypes == {"paragraph", "inlineImage", "list", "blockImage", "internalList"}

\* every balanced sequence of exactly n items
RECURSIVE BalancedOfLen(_)
BalancedOfLen(n) ==
    IF n = 0 THEN {<<>>}
    ELSE {<<Char(c)>> \o b : c \in Characters, b \in BalancedOfLen(n - 1)}
         \cup (IF n < 2 THEN {}
               ELSE UNION {{<<Open(t)>> \o inner \o <<Close(t)>> \o rest :
                               t \in BalancedTypes,
                               inner \in BalancedOfLen(k),
                               rest \in BalancedOfLen(n - 2 - k)} : k \in 0..(n - 2)})

BalancedData == UNION {BalancedOfLen(n) : n \in 0..MaxLen}

Distances == (-MaxDistance)..MaxDistance
Callbacks == {ContentOffset, StructuralOffset(FALSE), StructuralOffset(TRUE)}
Directions == {NoDirection} \cup {Direction(v) : v \in {-1, 0, 1}}

(***************************************************************************)
(* Specification of the linear data queries: the data is any input         *)
(* sequence and one query is applied to it.                                *)
(***************************************************************************)
NoCall ==
    [op |-> "none", offset |-> 0, distance |-> 0, cb |-> ContentOffset,
     direction |-> NoDirection]

\* no call is being run step by step
IdleWalk ==
    [pc |-> "idle", s |-> initialLoopState(<<>>, 0, 1), iterations |-> 0, turns |-> 0]

LinInit ==
    /\ data \in RawData \cup BalancedData
    /\ call = NoCall
    /\ flag = F
    /\ ret = 0
    /\ walk = IdleWalk
    /\ heap = <<>>
    /\ docs = <<>>
    /\ tx = <<>>
    /\ event = <<>>
    /\ snapshot = <<>>
    /\ surface = NoSurface

CallIsContentOffset ==
    \E offset \in 0..Len(data) :
        /\ call = NoCall
        /\ call' = [op |-> "isContentOffset", offset |-> offset, distance |-> 0,
                    cb |-> ContentOffset, direction |-> NoDirection]
        /\ flag' = isContentOffset(data, offset)
        /\ UNCHANGED <<data, ret, walk, surface>>
        /\ UNCHANGED docVars

CallIsStructuralOffset ==
    \E offset \in 0..Len(data), unrestricted \in BOOLEAN :
        /\ call = NoCall
        /\ call' = [op |-> "isStructuralOffset", offset |-> offset, distance |-> 0,
                    cb |-> StructuralOffset(unrestricted), direction |-> NoDirection]
        /\ flag' = isStructuralOffset(data, offset, unrestricted)
        /\ UNCHANGED <<data, ret, walk, surface>>
        /\ UNCHANGED docVars

CallGetRelativeOffset ==
    \E offset \in 0..Len(data), distance \in Distances, cb \in Callbacks :
        /\ call = NoCall
        /\ call' = [op |-> "getRelativeOffset", offset |-> offset, distance |-> distance,
                    cb |-> cb, direction |-> NoDirection]
        /\ ret' = getRelativeOffset(data, offset, distance, cb)
        /\ UNCHANGED <<data, flag, walk, surface>>
        /\ UNCHANGED docVars

CallGetNearestContentOffset ==
    \E offset \in 0..Len(data), direction \in Directions :
        /\ call = NoCall
        /\ call' = [op |-> "getNearestContentOffset", offset |-> offset, distance |-> 0,
                    cb |-> ContentOffset, direction |-> direction]
        /\ ret' = getNearestContentOffset(data, offset, direction)
        /\ UNCHANGED <<data, flag, walk, surface>>
        /\ UNCHANGED docVars

CallGetNearestStructuralOffset ==
    \E offset \in 0..Len(data), direction \in Directions, unrestricted \in BOOLEAN :
        /\ call = NoCall
        /\ call' = [op |-> "getNearestStructuralOffset", offset |-> offset,
                    distance |-> 0, cb |-> StructuralOffset(unrestricted),
                    direction |-> direction]
        /\ ret' = getNearestStructuralOffset(data, offset, direction, unrestricted)
        /\ UNCHANGED <<data, flag, walk, surface>>
        /\ UNCHANGED docVars

LinNext ==
    \/ CallIsContentOffset
    \/ CallIsStructuralOffset
    \/ CallGetRelativeOffset
    \/ CallGetNearestContentOffset
    \/ CallGetNearestStructuralOffset

SpecLinear == LinInit /\ [][LinNext]_vars

(***************************************************************************)
(* Specification of one getRelativeOffset call, run one iteration of its   *)
(* while loop at a time.  walk.iterations counts the iterations and        *)
(* walk.turns the reversals of the direction.                              *)
(***************************************************************************)
\* longer data in which an internalList lies inside or beside an
\* ignore-children node, and data that is unbalanced or of an unregistered type
WalkExamples ==
    {<<Char("a"), Open("blockImage"), Open("internalList"), Close("internalList"),
       Close("blockImage")>>,
     <<Open("paragraph"), Char("a"), Close("paragraph"),
       Open("internalList"), Close("internalList")>>,
     <<Close("blockImage"), Char("a")>>,
     <<Open("paragraph"), Open("unknown")>>}

WalkData == UNION {BalancedOfLen(n) : n \in 0..MaxWalkLen} \cup WalkExamples

WalkInit ==
    /\ data \in WalkData
    /\ call = NoCall
    /\ flag = F
    /\ ret = 0
    /\ walk = IdleWalk
    /\ heap = <<>>
    /\ docs = <<>>
    /\ tx = <<>>
    /\ event = <<>>
    /\ snapshot = <<>>
    /\ surface = NoSurface

\* the call begins: the test for a zero distance and the initial values
WalkBegin ==
    \E offset \in 0..Len(data), distance \in Distances, cb \in Callbacks :
        LET atStart == IF distance = 0 THEN callback(data, cb, offset) ELSE F
        IN  /\ walk.pc = "idle"
            /\ call' = [op |-> "getRelativeOffset", offset |-> offset,
                        distance |-> distance, cb |-> cb, direction |-> NoDirection]
            /\ IF atStart = F
               THEN /\ walk' = [pc |-> "loop",
                                s |-> initialLoopState(data, offset,
                                        IF distance = 0 THEN 1 ELSE distance),
                                iterations |-> 0, turns |-> 0]
                    /\ ret' = ret
               ELSE /\ walk' = [walk EXCEPT !.pc = "done"]
                    /\ ret' = IF atStart = Throw THEN Thrown ELSE offset
            /\ UNCHANGED <<data, flag, docVars>>

\* the loop condition is tested and, when it holds, one iteration is run
WalkIterate ==
    /\ walk.pc = "loop"
    /\ IF ~loopCondition(data, walk.s)
       THEN /\ walk' = [walk EXCEPT !.pc = "done"]
            /\ ret' = loopExhausted(walk.s).value
       ELSE LET r == loopIteration(data, call.offset, call.cb, walk.s)
            IN  IF r.done
                THEN /\ walk' = [walk EXCEPT !.pc = "done", !.iterations = @ + 1]
                     /\ ret' = r.value
                ELSE /\ walk' = [walk EXCEPT
                                   !.s = r.s,
                                   !.iterations = @ + 1,
                                   !.turns = IF r.s.direction # walk.s.direction
                                             THEN @ + 1 ELSE @]
                     /\ ret' = ret
    /\ UNCHANGED <<data, call, flag, docVars>>

WalkNext == WalkBegin \/ WalkIterate

\* the loop of a call that is running goes on: the code is synchronous
SpecWalk == WalkInit /\ [][WalkNext]_vars /\ WF_vars(WalkIterate)

(***************************************************************************)
(* Annotations.  An annotation is named by its index in the store; the     *)
(* annotations of an item are the list item.ann.  An element with          *)
(* ann = <<>> has no annotations property; a character with no annotations *)
(* is either bare (k = "string") or a pair with an empty list              *)
(* (k = "array").  An annotation set is the list of its store indexes,     *)
(* without repetition.                                                     *)
(***************************************************************************)
AnnOpen(type, a) == [k |-> "element", t |-> type, close |-> FALSE, ann |-> a]

\* the value of an index-list-valued call that throws
ThrownIndexes == <<Thrown>>

IndexSet(indexes) == {indexes[n] : n \in 1..Len(indexes)}

\* annotationSet.isEmpty()
isEmpty(set) == set = <<>>

\* left.addSet( right ): the annotations of right not yet in left are appended
addSet(left, right) ==
    left \o SelectSeq(right, LAMBDA x : x \notin IndexSet(left))

\* left.getComparableAnnotationsFromSet( right ): the annotations of left that
\* right has too
getComparableAnnotationsFromSet(left, right) ==
    SelectSeq(left, LAMBDA x : x \in IndexSet(right))

\* element.annotations, else element[ 1 ], else []
annotationsOfItem(element) ==
    IF element.k = "undefined" \/ element.k = "string" THEN <<>> ELSE element.ann

\* !ignoreClose && this.isCloseElementData( offset ) && !canNodeHaveChildren( type )
rewindsAtLeafClose(d, offset, ignoreClose) ==
    IF ~ignoreClose /\ isCloseElementData(d, offset)
    THEN Not3(canNodeHaveChildren(getType(d, offset)))
    ELSE F

getAnnotationIndexesFromOffset(d, offset, ignoreClose) ==
    IF offset < 0 \/ offset > getLength(d) THEN ThrownIndexes
    ELSE LET rewind == rewindsAtLeafClose(d, offset, ignoreClose)
         IN  IF rewind = Throw THEN ThrownIndexes
             ELSE LET at == IF rewind = T THEN getRelativeContentOffset(d, offset, -1)
                            ELSE offset
                  IN  IF at = Thrown THEN ThrownIndexes
                      ELSE annotationsOfItem(getData(d, at))

\* new ve.dm.AnnotationSet( this.getStore(), this.getAnnotationIndexesFromOffset( ... ) )
getAnnotationsFromOffset(d, offset, ignoreClose) ==
    getAnnotationIndexesFromOffset(d, offset, ignoreClose)

\* the variable left of getAnnotationsFromRange: undefined until first assigned
NoSet == [assigned |-> FALSE, set |-> <<>>]
Assigned(set) == [assigned |-> TRUE, set |-> set]

\* ignoreChildrenDepth > 0
insideIgnored(ignoreChildrenDepth) == ignoreChildrenDepth > 0

\* right.isEmpty(): a non annotated character indicates there's no full coverage
uncovered(left, right) == isEmpty(right)

\* the outcome of an iteration of the loop of getAnnotationsFromRange: the loop
\* goes on with left and ignoreChildrenDepth, or the call returns or throws
GoOn(left, ignoreChildrenDepth) ==
    [returns |-> FALSE, value |-> <<>>, left |-> left, depth |-> ignoreChildrenDepth]
Returns(value) == [returns |-> TRUE, value |-> value, left |-> NoSet, depth |-> 0]

\* the part of an iteration that looks at the annotations at the position:
\* here is this.getAnnotationsFromOffset( i )
rangeIterationAt(start, end, all, left, depth, here) ==
    IF here = ThrownIndexes THEN Returns(ThrownIndexes)
    ELSE IF ~left.assigned
    THEN IF end - start = 0 \/ end - start = 1 THEN Returns(here)
         ELSE GoOn(Assigned(here), depth)
    ELSE IF all
    THEN GoOn(IF ~isEmpty(here) THEN Assigned(addSet(left.set, here)) ELSE left, depth)
    ELSE IF uncovered(left.set, here) THEN Returns(<<>>)
    ELSE LET common == getComparableAnnotationsFromSet(left.set, here)
         \* if left is reduced down to nothing, stop looking
         IN  IF isEmpty(common) THEN Returns(common)
             ELSE GoOn(Assigned(common), depth)

rangeIteration(d, start, end, all, i, left, ignoreChildrenDepth) ==
    LET element == isElementData(d, i)
        ignores == IF element THEN shouldIgnoreChildren(getType(d, i)) ELSE F
        content == IF element THEN isNodeContent(getType(d, i)) ELSE T
        depth == IF ignores = T
                 THEN ignoreChildrenDepth + (IF isOpenElementData(d, i) THEN 1 ELSE -1)
                 ELSE ignoreChildrenDepth
    IN  IF ignores = Throw \/ content = Throw THEN Returns(ThrownIndexes)
        \* skip non-content data, and things inside ignoreChildren nodes
        ELSE IF content = F \/ insideIgnored(depth) THEN GoOn(left, depth)
        ELSE rangeIterationAt(start, end, all, left, depth,
                              getAnnotationsFromOffset(d, i, FALSE))

RECURSIVE getAnnotationsFromRangeLoop(_, _, _, _, _, _, _)
\* the loop goes on after an iteration of outcome r, unless the call has returned
getAnnotationsFromRangeRest(d, start, end, all, i, r) ==
    IF r.returns THEN r.value
    ELSE getAnnotationsFromRangeLoop(d, start, end, all, i + 1, r.left, r.depth)

getAnnotationsFromRangeLoop(d, start, end, all, i, left, ignoreChildrenDepth) ==
    IF i >= end THEN left.set
    ELSE getAnnotationsFromRangeRest(d, start, end, all, i,
            rangeIteration(d, start, end, all, i, left, ignoreChildrenDepth))

getAnnotationsFromRange(d, start, end, all) ==
    getAnnotationsFromRangeLoop(d, start, end, all, start, NoSet, 0)

\* Array.isArray( item ) ? item[ 0 ] : item, and '' if that is not a string
getCharacterData(d, offset) ==
    LET item == getData(d, offset)
    IN  IF item.k \in {"string", "array"} THEN item.t ELSE ""

\* this.setData( offset, value )
setData(d, offset, value) == [d EXCEPT ![offset + 1] = value]

cleanedCharacter_EmptyPair(character) == AnnChar(character, <<>>)

\* this.setData( offset, character ): the bare character
cleanedCharacter(character) == Char(character)

\* the data after setAnnotationIndexesAtOffset( offset, indexes ), for an offset
\* that holds an item
setAnnotationIndexesAtOffset(d, offset, indexes) ==
    LET item == getData(d, offset)
        element == isElementData(d, offset)
        character == getCharacterData(d, offset)
    IN  IF Len(indexes) > 0
        THEN IF element THEN setData(d, offset, [item EXCEPT !.ann = indexes])
             ELSE setData(d, offset, AnnChar(character, indexes))
        ELSE IF element THEN setData(d, offset, [item EXCEPT !.ann = <<>>])
             ELSE setData(d, offset, cleanedCharacter(character))

(***************************************************************************)
(* Specification of the annotation calls: the data is a balanced sequence  *)
(* with annotated characters and elements, or one of the examples, and one *)
(* call is applied to it.  snapshot is the data before the call.           *)
(***************************************************************************)
IndexLists == {<<>>, <<0>>, <<1>>, <<0, 1>>}

AnnotatedCharacters ==
    {Char(c) : c \in Characters} \cup {AnnChar(c, a) : c \in Characters, a \in IndexLists \ {<<>>}}

\* the opening markers of the annotated data: a content branch, an annotated or
\* bare content leaf, and an ignore-children node
AnnotatedOpenings ==
    {Open("paragraph"), Open("inlineImage"), AnnOpen("inlineImage", <<0>>),
     Open("blockImage")}

\* every balanced sequence of exactly n such items, the leaves empty
RECURSIVE AnnotatedOfLen(_)
AnnotatedOfLen(n) ==
    IF n = 0 THEN {<<>>}
    ELSE {<<c>> \o b : c \in AnnotatedCharacters, b \in AnnotatedOfLen(n - 1)}
         \cup (IF n < 2 THEN {}
               ELSE UNION {{<<o>> \o inner \o <<Close(o.t)>> \o rest :
                               o \in {op \in AnnotatedOpenings :
                                        k = 0 \/ canNodeHaveChildren(op.t) = T},
                               inner \in AnnotatedOfLen(k),
                               rest \in AnnotatedOfLen(n - 2 - k)} : k \in 0..(n - 2)})

\* data of an unregistered type, data with an unmatched closing marker, and a
\* character pair with an empty annotation list
AnnotatedExamples ==
    {<<AnnChar("a", <<0>>), Open("unknown"), Close("unknown"), AnnChar("a", <<0>>)>>,
     <<Close("inlineImage"), AnnChar("a", <<0>>)>>,
     <<AnnChar("a", <<>>), AnnChar("a", <<1>>)>>}

\* the balanced sequences of at most maxLen items, and the examples
AnnotatedData(maxLen) ==
    UNION {AnnotatedOfLen(n) : n \in 0..maxLen} \cup AnnotatedExamples

AnnInit ==
    /\ data \in AnnotatedData(MaxAnnLen)
    /\ call = NoCall
    /\ flag = F
    /\ ret = <<>>
    /\ walk = IdleWalk
    /\ heap = <<>>
    /\ docs = <<>>
    /\ tx = <<>>
    /\ event = <<>>
    /\ snapshot = data
    /\ surface = NoSurface

CallGetAnnotationIndexesFromOffset ==
    \E offset \in 0..Len(data), ignoreClose \in BOOLEAN :
        /\ call.op = "none"
        /\ call' = [op |-> "getAnnotationIndexesFromOffset", offset |-> offset,
                    ignoreClose |-> ignoreClose]
        /\ ret' = getAnnotationIndexesFromOffset(data, offset, ignoreClose)
        /\ UNCHANGED <<data, flag, walk, heap, docs, tx, event, snapshot, surface>>

CallGetAnnotationsFromRange ==
    \E start \in 0..Len(data), all \in BOOLEAN :
        \E end \in start..Len(data) :
            /\ call.op = "none"
            /\ call' = [op |-> "getAnnotationsFromRange", start |-> start, end |-> end,
                        all |-> all]
            /\ ret' = getAnnotationsFromRange(data, start, end, all)
            /\ UNCHANGED <<data, flag, walk, heap, docs, tx, event, snapshot, surface>>

CallSetAnnotationIndexesAtOffset ==
    \E offset \in 0..(Len(data) - 1), indexes \in IndexLists :
        /\ call.op = "none"
        /\ call' = [op |-> "setAnnotationIndexesAtOffset", offset |-> offset,
                    indexes |-> indexes]
        /\ data' = setAnnotationIndexesAtOffset(data, offset, indexes)
        /\ UNCHANGED <<flag, ret, walk, heap, docs, tx, event, snapshot, surface>>

AnnNext ==
    \/ CallGetAnnotationIndexesFromOffset
    \/ CallGetAnnotationsFromRange
    \/ CallSetAnnotationIndexesAtOffset

SpecAnnotations == AnnInit /\ [][AnnNext]_vars

(***************************************************************************)
(* sanitize( { plainText: true } ): every other rule is left undefined.    *)
(* The items carry no internal property (internal.generated,               *)
(* internal.whitespace), so the statements that delete one do nothing.     *)
(***************************************************************************)
NewLine == "\n"
Space == " "

\* character.match( /\s/ )
isWhitespace(character) == character \in {NewLine, Space}

\* this.splice( i, howMany )
splice(d, i, howMany) == SubSeq(d, 1, i) \o SubSeq(d, i + howMany + 1, Len(d))

\* the value of sanitize: the data it leaves, and whether it threw
Sanitized(d, thrown) == [data |-> d, thrown |-> thrown]

\* { type: ( this.isCloseElementData( i ) ? '/' : '' ) + 'paragraph' }
asParagraph(d, i) == IF isCloseElementData(d, i) THEN Close("paragraph") ELSE Open("paragraph")

isPlainTextType_Any(type) == TRUE

\* !( rules.plainText && type !== 'paragraph' && type !== 'internalList' )
isPlainTextType(type) == type \in {"paragraph", "internalList"}

\* this.data[ i ] = ' ' or this.data[ i ][ 0 ] = ' '
asSpace(item) == [item EXCEPT !.t = Space]

stripAnnotations_Keep(d, i) == d

\* annotations = this.getAnnotationsFromOffset( i, true ); if it is not empty,
\* this.setAnnotationsAtOffset( i, emptySet )
stripAnnotations(d, i) ==
    IF ~isEmpty(getAnnotationsFromOffset(d, i, TRUE))
    THEN setAnnotationIndexesAtOffset(d, i, <<>>)
    ELSE d

\* the outcome of the first part of an iteration of the for loop (up to line
\* 1195): an item was removed and the loop continues at i, or the item at i is
\* kept, or a call threw
Removed(d, type) == [data |-> d, type |-> type, kept |-> FALSE, thrown |-> FALSE]
Kept(d, type) == [data |-> d, type |-> type, kept |-> TRUE, thrown |-> FALSE]
SanitizeThrows(d) == [data |-> d, type |-> "", kept |-> FALSE, thrown |-> TRUE]

\* the first part of an iteration; type is the variable of that name, "" while
\* it is undefined
sanitizeItem(d, i, type) ==
    IF isElementData(d, i)
    THEN LET elementType == getType(d, i)
             canContainContent == canNodeContainContent(elementType)
             isOpen == isOpenElementData(d, i)
             converts == elementType # "paragraph" /\ canContainContent = T
             newType == IF converts THEN "paragraph" ELSE elementType
             converted == IF converts THEN setData(d, i, asParagraph(d, i)) ELSE d
         IN  IF canContainContent = Throw THEN SanitizeThrows(d)
             \* remove blacklisted nodes
             ELSE IF ~isPlainTextType(newType) THEN Removed(splice(converted, i, 1), newType)
             \* if a node is empty but can contain content, then just remove it
             ELSE IF isOpen /\ isCloseElementData(converted, i + 1) /\ canContainContent = T
             THEN Removed(splice(converted, i, 2), newType)
             ELSE Kept(converted, newType)
    ELSE IF getCharacterData(d, i) = NewLine
    THEN LET significant == doesNodeHaveSignificantWhitespace(type)
         IN  IF significant = Throw THEN SanitizeThrows(d)
             ELSE IF significant = T THEN Kept(d, type)
             \* if whitespace-adjacent, remove the newline to avoid double spaces
             ELSE IF \/ isWhitespace(getCharacterData(d, i + 1))
                     \/ isWhitespace(getCharacterData(d, i - 1))
             THEN Removed(splice(d, i, 1), type)
             \* ...otherwise replace it with a space
             ELSE Kept(setData(d, i, asSpace(getData(d, i))), type)
    ELSE Kept(d, type)

RECURSIVE sanitizeLoop(_, _, _)
\* the rest of the iteration and of the loop, r being the outcome of its first
\* part: the annotations of a kept item are emptied and i++
sanitizeRest(i, r) ==
    IF r.thrown THEN Sanitized(r.data, TRUE)
    ELSE IF r.kept THEN sanitizeLoop(stripAnnotations(r.data, i), i + 1, r.type)
    ELSE sanitizeLoop(r.data, i, r.type)

sanitizeLoop(d, i, type) ==
    IF i >= Len(d) THEN Sanitized(d, FALSE)
    ELSE sanitizeRest(i, sanitizeItem(d, i, type))

sanitize(d) ==
    \* allAnnotations = this.getAnnotationsFromRange( new ve.Range( 0, length ), true )
    IF getAnnotationsFromRange(d, 0, getLength(d), TRUE) = ThrownIndexes
    THEN Sanitized(d, TRUE)
    ELSE sanitizeLoop(d, 0, "")

(***************************************************************************)
(* Specification of sanitize: the data is a balanced sequence, or one of   *)
(* the examples, and sanitize( { plainText: true } ) is applied to it.     *)
(* snapshot is the data before the call.                                   *)
(***************************************************************************)
SanitizeCharacters ==
    {Char("a"), AnnChar("a", <<0>>), Char(NewLine), Char(Space)}

SanitizeOpenings ==
    {Open("paragraph"), Open("heading"), Open("preformatted"), Open("list"),
     AnnOpen("inlineImage", <<0>>), Open("internalList")}

\* every balanced sequence of exactly n such items, the leaves empty
RECURSIVE SanitizeOfLen(_)
SanitizeOfLen(n) ==
    IF n = 0 THEN {<<>>}
    ELSE {<<c>> \o b : c \in SanitizeCharacters, b \in SanitizeOfLen(n - 1)}
         \cup (IF n < 2 THEN {}
               ELSE UNION {{<<o>> \o inner \o <<Close(o.t)>> \o rest :
                               o \in {op \in SanitizeOpenings :
                                        k = 0 \/ canNodeHaveChildren(op.t) = T},
                               inner \in SanitizeOfLen(k),
                               rest \in SanitizeOfLen(n - 2 - k)} : k \in 0..(n - 2)})

\* an annotated heading around annotated text, a list around preformatted text, an
\* annotated newline between two letters, and data of an unregistered type
SanitizeExamples ==
    {<<AnnOpen("heading", <<0>>), AnnChar("a", <<0, 1>>), Close("heading")>>,
     <<Open("list"), Open("preformatted"), AnnChar("a", <<0>>), Close("preformatted"),
       Close("list")>>,
     <<Open("paragraph"), Char("a"), AnnChar(NewLine, <<0>>), Char("a"), Close("paragraph")>>,
     <<Open("paragraph"), Open("unknown"), Close("unknown"), Close("paragraph")>>}

\* the balanced sequences of at most maxLen items, and the examples
SanitizeData(maxLen) ==
    UNION {SanitizeOfLen(n) : n \in 0..maxLen} \cup SanitizeExamples

SanInit ==
    /\ data \in SanitizeData(MaxSanLen)
    /\ call = NoCall
    /\ flag = F
    /\ ret = 0
    /\ walk = IdleWalk
    /\ heap = <<>>
    /\ docs = <<>>
    /\ tx = <<>>
    /\ event = <<>>
    /\ snapshot = data
    /\ surface = NoSurface

CallSanitize ==
    LET r == sanitize(data)
    IN  /\ call.op = "none"
        /\ call' = [op |-> "sanitize", plainText |-> TRUE]
        /\ data' = r.data
        /\ flag' = IF r.thrown THEN Throw ELSE F
        /\ UNCHANGED <<ret, walk, heap, docs, tx, event, snapshot, surface>>

SanNext == CallSanitize

SpecSanitize == SanInit /\ [][SanNext]_vars

(***************************************************************************)
(* sanitize( rules ) under the rules blacklist, conversions, plainText,    *)
(* allowBreaks and keepEmptyContentBranches; removeOriginalDomElements,    *)
(* preserveHtmlWhitespace and nodeSanitization are left undefined.  An     *)
(* element whose internal.generated is set carries the field generated;    *)
(* no item has internal.whitespace.  The variable contentElement holds a   *)
(* reference to an item of the data: it is the index of that item, which   *)
(* no later splice moves, or NoElement.                                    *)
(***************************************************************************)
\* { type: type, internal: { generated: 'wrapper' } }
GeneratedOpen(type) ==
    [k |-> "element", t |-> type, close |-> FALSE, ann |-> <<>>, generated |-> TRUE]

\* ve.getProp( item, 'internal', 'generated' )
isGenerated(item) == "generated" \in DOMAIN item

\* delete item.internal.generated; delete item.internal
deleteGenerated(item) == [k |-> item.k, t |-> item.t, close |-> item.close, ann |-> item.ann]

\* the names of the annotations of the store, by index
annotationNames == <<"textStyle/bold", "link">>

\* rules.conversions is a map from type to type, rules.blacklist a set of names
Rules(blacklist, conversions, plainText, allowBreaks, keepEmptyContentBranches) ==
    [blacklist |-> blacklist, conversions |-> conversions, plainText |-> plainText,
     allowBreaks |-> allowBreaks, keepEmptyContentBranches |-> keepEmptyContentBranches]

\* contentElement while it is undefined or null
NoElement == -1

\* this.splice( i, howMany, ...items )
spliceIn(d, i, howMany, items) ==
    SubSeq(d, 1, i) \o items \o SubSeq(d, i + howMany + 1, Len(d))

converts_Never(rules, type) == FALSE

\* rules.conversions && rules.conversions[ type ]
converts(rules, type) == type \in DOMAIN rules.conversions

\* this.getData( i ).type = ( !isOpen ? '/' : '' ) + type
withType(item, type) == [item EXCEPT !.t = type]

\* ( rules.blacklist && rules.blacklist.indexOf( type ) !== -1 ) ||
\* ( rules.plainText && type !== 'paragraph' && type !== 'internalList' )
isBlacklisted(rules, type) ==
    type \in rules.blacklist \/ (rules.plainText /\ ~isPlainTextType(type))

\* make sure you haven't just unwrapped a wrapper paragraph: d is the data after
\* the splice
unwrapGenerated(d, i, isOpen) ==
    IF isOpen /\ isGenerated(getData(d, i))
    THEN setData(d, i, deleteGenerated(getData(d, i)))
    ELSE d

isOnlyChild_Never(d, i) == FALSE

\* this.isOpenElementData( i - 1 ) && this.isCloseElementData( i + 2 )
isOnlyChild(d, i) == isOpenElementData(d, i - 1) /\ isCloseElementData(d, i + 2)

splitOnBreak_NoClose(d, i, contentElement) ==
    IF isOnlyChild(d, i) THEN splice(d, i, 2)
    ELSE spliceIn(d, i, 2, <<getData(d, contentElement)>>)

\* split on breaks: the break at i is removed, or replaced by a closing marker
\* of contentElement and a copy of contentElement
splitOnBreak(d, i, contentElement) ==
    IF isOnlyChild(d, i) THEN splice(d, i, 2)
    ELSE spliceIn(d, i, 2, <<Close(getData(d, contentElement).t),
                             getData(d, contentElement)>>)

\* the outcome of the first part of an iteration of the for loop (up to line
\* 1195), with the value it leaves in contentElement
Spliced(d, type, contentElement) ==
    [data |-> d, type |-> type, kept |-> FALSE, thrown |-> FALSE,
     contentElement |-> contentElement]
Stays(d, type, contentElement) ==
    [data |-> d, type |-> type, kept |-> TRUE, thrown |-> FALSE,
     contentElement |-> contentElement]

\* the element at i after the type conversions (lines 1097-1108)
convertElement(d, i, rules, canContainContent) ==
    LET item == getData(d, i)
        converted == IF converts(rules, item.t)
                     THEN withType(item, rules.conversions[item.t]) ELSE item
    IN  IF rules.plainText /\ converted.t # "paragraph" /\ canContainContent = T
        THEN asParagraph(d, i)
        ELSE converted

\* the checks on the element at i, item being the converted element
\* (lines 1110-1170)
checkElement(d, i, rules, contentElement, item, canContainContent) ==
    IF isBlacklisted(rules, item.t)
    THEN Spliced(unwrapGenerated(splice(d, i, 1), i, ~item.close), item.t, contentElement)
    ELSE IF ~rules.allowBreaks /\ item.t = "break" /\ contentElement # NoElement
    THEN Spliced(splitOnBreak(d, i, contentElement), item.t, contentElement)
    ELSE IF /\ ~rules.keepEmptyContentBranches
            /\ ~item.close /\ isCloseElementData(d, i + 1)
            /\ ~isGenerated(item)
            /\ canContainContent = T
    THEN Spliced(splice(d, i, 2), item.t, contentElement)
    ELSE Stays(setData(d, i, item), item.t,
               IF canContainContent = T
               THEN (IF item.close THEN NoElement ELSE i)
               ELSE contentElement)

\* the first part of an iteration on an element
sanitizeElement(d, i, rules, contentElement, canContainContent) ==
    IF canContainContent = Throw THEN SanitizeThrows(d)
    ELSE checkElement(d, i, rules, contentElement,
                      convertElement(d, i, rules, canContainContent), canContainContent)

\* annotations.removeSet( setToRemove )
removeSet(annotations, setToRemove) ==
    SelectSeq(annotations, LAMBDA x : x \notin IndexSet(setToRemove))

\* allAnnotations.filter( ... ): the annotations whose name is blacklisted
blacklistedAnnotations(allAnnotations, rules) ==
    SelectSeq(allAnnotations, LAMBDA x : annotationNames[x + 1] \in rules.blacklist)

\* lines 1196-1205, annotations being this.getAnnotationsFromOffset( i, true )
sanitizeAnnotations(d, i, rules, setToRemove, annotations) ==
    IF isEmpty(annotations) THEN d
    ELSE IF rules.plainText THEN setAnnotationIndexesAtOffset(d, i, <<>>)
    ELSE IF setToRemove # <<>>
    THEN setAnnotationIndexesAtOffset(d, i, removeSet(annotations, setToRemove))
    ELSE d

\* the first part of an iteration
sanitizeFirst(d, i, rules, type, contentElement) ==
    IF isElementData(d, i)
    THEN sanitizeElement(d, i, rules, contentElement, canNodeContainContent(getType(d, i)))
    ELSE sanitizeItem(d, i, type)

RECURSIVE sanitizeRulesLoop(_, _, _, _, _, _)
\* the rest of the iteration and of the loop, r being the outcome of its first
\* part; a character leaves contentElement as it is
sanitizeRulesRest(i, rules, setToRemove, contentElement, r) ==
    IF r.thrown THEN Sanitized(r.data, TRUE)
    ELSE IF r.kept
    THEN sanitizeRulesLoop(
             sanitizeAnnotations(r.data, i, rules, setToRemove,
                                 getAnnotationsFromOffset(r.data, i, TRUE)),
             i + 1, rules, setToRemove, r.type,
             IF "contentElement" \in DOMAIN r THEN r.contentElement ELSE contentElement)
    ELSE sanitizeRulesLoop(r.data, i, rules, setToRemove, r.type,
             IF "contentElement" \in DOMAIN r THEN r.contentElement ELSE contentElement)

sanitizeRulesLoop(d, i, rules, setToRemove, type, contentElement) ==
    IF i >= Len(d) THEN Sanitized(d, FALSE)
    ELSE sanitizeRulesRest(i, rules, setToRemove, contentElement,
                           sanitizeFirst(d, i, rules, type, contentElement))

\* allAnnotations = this.getAnnotationsFromRange( new ve.Range( 0, length ), true )
sanitizeFrom(d, rules, allAnnotations) ==
    IF allAnnotations = ThrownIndexes THEN Sanitized(d, TRUE)
    ELSE sanitizeRulesLoop(d, 0, rules, blacklistedAnnotations(allAnnotations, rules),
                           "", NoElement)

sanitizeRules(d, rules) ==
    sanitizeFrom(d, rules, getAnnotationsFromRange(d, 0, getLength(d), TRUE))

(***************************************************************************)
(* Specification of sanitize( rules ): the data is a balanced sequence, or *)
(* one of the examples, and sanitize is applied to it under one of the     *)
(* rule sets.  snapshot is the data before the call.                       *)
(***************************************************************************)
RuleCharacters == {Char("a"), AnnChar("a", <<0>>)}

RuleOpenings ==
    {Open("paragraph"), GeneratedOpen("paragraph"), Open("heading"), Open("break"),
     Open("inlineImage"), Open("listItem")}

\* every balanced sequence of exactly n such items, the leaves empty
RECURSIVE RuleDataOfLen(_)
RuleDataOfLen(n) ==
    IF n = 0 THEN {<<>>}
    ELSE {<<c>> \o b : c \in RuleCharacters, b \in RuleDataOfLen(n - 1)}
         \cup (IF n < 2 THEN {}
               ELSE UNION {{<<o>> \o inner \o <<Close(o.t)>> \o rest :
                               o \in {op \in RuleOpenings :
                                        k = 0 \/ canNodeHaveChildren(op.t) = T},
                               inner \in RuleDataOfLen(k),
                               rest \in RuleDataOfLen(n - 2 - k)} : k \in 0..(n - 2)})

\* a break between two letters, two breaks in a paragraph, a break after an
\* annotated letter in an annotated heading, a wrapper paragraph in a list item,
\* data of an unregistered type, and a break in a list item that lies inside a
\* paragraph
RuleExamples ==
    {<<Open("paragraph"), Char("a"), Open("break"), Close("break"), Char("a"),
       Close("paragraph")>>,
     <<Open("paragraph"), Open("break"), Close("break"), Open("break"), Close("break"),
       Close("paragraph")>>,
     <<AnnOpen("heading", <<0>>), AnnChar("a", <<0, 1>>), Open("break"), Close("break"),
       Close("heading")>>,
     <<Open("listItem"), GeneratedOpen("paragraph"), Char("a"), Close("paragraph"),
       Close("listItem")>>,
     <<Open("paragraph"), Open("unknown"), Close("unknown"), Close("paragraph")>>,
     <<Open("paragraph"), Open("listItem"), Char("a"), Open("break"), Close("break"),
       Close("listItem"), Close("paragraph")>>}

\* the balanced sequences of at most maxLen items, and the examples
RuleData(maxLen) ==
    UNION {RuleDataOfLen(n) : n \in 0..maxLen} \cup RuleExamples

Blacklists ==
    {{}, {"heading"}, {"paragraph"}, {"inlineImage"}, {"break"}, {"listItem"},
     {"textStyle/bold"}}

Conversions ==
    {<<>>, [type \in {"heading"} |-> "paragraph"], [type \in {"paragraph"} |-> "heading"]}

\* the rule sets: every choice outside plainText mode, and plainText mode with and
\* without a blacklist
RuleSets ==
    {Rules(blacklist, conversions, FALSE, allowBreaks, keepEmptyContentBranches) :
        blacklist \in Blacklists, conversions \in Conversions,
        allowBreaks \in BOOLEAN, keepEmptyContentBranches \in BOOLEAN}
    \cup {Rules(blacklist, <<>>, TRUE, FALSE, FALSE) : blacklist \in {{}, {"paragraph"}}}

RulesInit ==
    /\ data \in RuleData(MaxRuleLen)
    /\ call = NoCall
    /\ flag = F
    /\ ret = 0
    /\ walk = IdleWalk
    /\ heap = <<>>
    /\ docs = <<>>
    /\ tx = <<>>
    /\ event = <<>>
    /\ snapshot = data
    /\ surface = NoSurface

CallSanitizeRules ==
    \E rules \in RuleSets :
        /\ call.op = "none"
        /\ call' = [op |-> "sanitize", rules |-> rules]
        /\ data' = sanitizeRules(data, rules).data
        /\ flag' = IF sanitizeRules(data, rules).thrown THEN Throw ELSE F
        /\ UNCHANGED <<ret, walk, heap, docs, tx, event, snapshot, surface>>

RulesNext == CallSanitizeRules

SpecSanitizeRules == RulesInit /\ [][RulesNext]_vars

(***************************************************************************)
(* countNonInternalElements and hasContent                                 *)
(***************************************************************************)
\* the limit argument when it is not given
NoLimit == 0

\* one iteration of the loop of countNonInternalElements: internal is
\* type && ve.dm.nodeFactory.isNodeInternal( type )
countIteration(d, i, internalDepth, count, internal) ==
    IF internal = Throw
    THEN [thrown |-> TRUE, counted |-> FALSE, internalDepth |-> internalDepth, count |-> count]
    ELSE IF internal = T
    THEN [thrown |-> FALSE, counted |-> FALSE,
          internalDepth |-> IF isOpenElementData(d, i) THEN internalDepth + 1
                            ELSE internalDepth - 1,
          count |-> count]
    ELSE IF internalDepth = 0
    THEN [thrown |-> FALSE, counted |-> TRUE, internalDepth |-> internalDepth,
          count |-> count + 1]
    ELSE [thrown |-> FALSE, counted |-> FALSE, internalDepth |-> internalDepth,
          count |-> count]

RECURSIVE countLoop(_, _, _, _, _)
\* the rest of the iteration (the early return at the limit) and of the loop
countRest(d, limit, i, r) ==
    IF r.thrown THEN Thrown
    ELSE IF r.counted /\ limit # NoLimit /\ r.count >= limit THEN r.count
    ELSE countLoop(d, limit, i + 1, r.internalDepth, r.count)

countLoop(d, limit, i, internalDepth, count) ==
    IF i >= getLength(d) THEN count
    ELSE countRest(d, limit, i,
                   countIteration(d, i, internalDepth, count,
                                  IF getType(d, i) = "" THEN F
                                  ELSE isNodeInternal(getType(d, i))))

countNonInternalElements(d, limit) == countLoop(d, limit, 0, 0, 0)

hasContentBeyond_Never(d) == F

\* the second operand of hasContent: the first item is an element that is
\* neither a content branch nor internal
hasContentBeyond(d) ==
    And3(B3(isElementData(d, 0)),
    And3(Not3(canNodeContainContent(getType(d, 0))),
         Not3(isNodeInternal(getType(d, 0)))))

\* count being this.countNonInternalElements( 3 )
hasContentFrom(d, count) ==
    IF count = Thrown THEN Throw
    ELSE IF count > 2 THEN T
    ELSE hasContentBeyond(d)

hasContent(d) == hasContentFrom(d, countNonInternalElements(d, 3))

(***************************************************************************)
(* Specification of hasContent: the data is a balanced sequence, or one of *)
(* the examples, and hasContent or countNonInternalElements is called.     *)
(***************************************************************************)
ContentOpenings ==
    {Open("paragraph"), Open("list"), Open("blockImage"), Open("inlineImage"),
     Open("internalList"), Open("internalItem")}

\* every balanced sequence of exactly n items, the leaves empty
RECURSIVE ContentOfLen(_)
ContentOfLen(n) ==
    IF n = 0 THEN {<<>>}
    ELSE {<<Char("a")>> \o b : b \in ContentOfLen(n - 1)}
         \cup (IF n < 2 THEN {}
               ELSE UNION {{<<o>> \o inner \o <<Close(o.t)>> \o rest :
                               o \in {op \in ContentOpenings :
                                        k = 0 \/ canNodeHaveChildren(op.t) = T},
                               inner \in ContentOfLen(k),
                               rest \in ContentOfLen(n - 2 - k)} : k \in 0..(n - 2)})

\* an empty document with its internal list, a document with a block image, a
\* lone closing marker of the internal list, and data of an unregistered type
ContentExamples ==
    {<<Open("paragraph"), Close("paragraph"), Open("internalList"), Open("internalItem"),
       Open("paragraph"), Char("a"), Close("paragraph"), Close("internalItem"),
       Close("internalList")>>,
     <<Open("blockImage"), Close("blockImage"), Open("internalList"), Close("internalList")>>,
     <<Close("internalList"), Char("a"), Char("a"), Char("a")>>,
     <<Open("unknown"), Close("unknown")>>}

ContentData(maxLen) ==
    UNION {ContentOfLen(n) : n \in 0..maxLen} \cup ContentExamples

Limits == {NoLimit, 1, 3}

ContentInit ==
    /\ data \in ContentData(MaxContentLen)
    /\ call = NoCall
    /\ flag = F
    /\ ret = 0
    /\ walk = IdleWalk
    /\ heap = <<>>
    /\ docs = <<>>
    /\ tx = <<>>
    /\ event = <<>>
    /\ snapshot = <<>>
    /\ surface = NoSurface

CallCountNonInternalElements ==
    \E limit \in Limits :
        /\ call.op = "none"
        /\ call' = [op |-> "countNonInternalElements", limit |-> limit]
        /\ ret' = countNonInternalElements(data, limit)
        /\ UNCHANGED <<data, flag, walk, heap, docs, tx, event, snapshot, surface>>

CallHasContent ==
    /\ call.op = "none"
    /\ call' = [op |-> "hasContent"]
    /\ flag' = hasContent(data)
    /\ UNCHANGED <<data, ret, walk, heap, docs, tx, event, snapshot, surface>>

ContentNext == CallCountNonInternalElements \/ CallHasContent

SpecContent == ContentInit /\ [][ContentNext]_vars

(***************************************************************************)
(* Specification of the node factory: one capability query is made, for a  *)
(* registered type or for a name that is not registered.                   *)
(***************************************************************************)
\* the registered types, and names the registry does not own: an unknown name,
\* the name of a property every object inherits, the empty name
QueriedTypes == Registered \cup {"unknown", "constructor", ""}

QueriedAttributes == {<<>>, [level |-> 2], [style |-> "number", start |-> 1]}

QueriedAnnotations == {"link", "textStyle/bold", "textStyle"}

FactoryInit ==
    /\ data = <<>>
    /\ call = NoCall
    /\ flag = F
    /\ ret = 0
    /\ walk = IdleWalk
    /\ heap = <<>>
    /\ docs = <<>>
    /\ tx = <<>>
    /\ event = <<>>
    /\ snapshot = <<>>
    /\ surface = NoSurface

CallGetDataElement ==
    \E type \in QueriedTypes, attributes \in QueriedAttributes :
        /\ call.op = "none"
        /\ call' = [op |-> "getDataElement", type |-> type, attributes |-> attributes]
        /\ flag' = IF getDataElement(type, attributes).thrown THEN Throw ELSE F
        /\ ret' = getDataElement(type, attributes)
        /\ UNCHANGED <<data, walk, heap, docs, tx, event, snapshot, surface>>

CallGetChildNodeTypes ==
    \E type \in QueriedTypes :
        /\ call.op = "none"
        /\ call' = [op |-> "getChildNodeTypes", type |-> type]
        /\ flag' = IF getChildNodeTypes(type).thrown THEN Throw ELSE F
        /\ ret' = getChildNodeTypes(type)
        /\ UNCHANGED <<data, walk, heap, docs, tx, event, snapshot, surface>>

CallGetParentNodeTypes ==
    \E type \in QueriedTypes :
        /\ call.op = "none"
        /\ call' = [op |-> "getParentNodeTypes", type |-> type]
        /\ flag' = IF getParentNodeTypes(type).thrown THEN Throw ELSE F
        /\ ret' = getParentNodeTypes(type)
        /\ UNCHANGED <<data, walk, heap, docs, tx, event, snapshot, surface>>

CallGetSuggestedParentNodeTypes ==
    \E type \in QueriedTypes :
        /\ call.op = "none"
        /\ call' = [op |-> "getSuggestedParentNodeTypes", type |-> type]
        /\ flag' = IF getSuggestedParentNodeTypes(type).thrown THEN Throw ELSE F
        /\ ret' = getSuggestedParentNodeTypes(type)
        /\ UNCHANGED <<data, walk, heap, docs, tx, event, snapshot, surface>>

CallCanNodeHaveChildren ==
    \E type \in QueriedTypes :
        /\ call.op = "none"
        /\ call' = [op |-> "canNodeHaveChildren", type |-> type]
        /\ flag' = canNodeHaveChildren(type)
        /\ UNCHANGED <<data, ret, walk, heap, docs, tx, event, snapshot, surface>>

CallCanNodeHaveChildrenNotContent ==
    \E type \in QueriedTypes :
        /\ call.op = "none"
        /\ call' = [op |-> "canNodeHaveChildrenNotContent", type |-> type]
        /\ flag' = canNodeHaveChildrenNotContent(type)
        /\ UNCHANGED <<data, ret, walk, heap, docs, tx, event, snapshot, surface>>

CallIsNodeWrapped ==
    \E type \in QueriedTypes :
        /\ call.op = "none"
        /\ call' = [op |-> "isNodeWrapped", type |-> type]
        /\ flag' = isNodeWrapped(type)
        /\ UNCHANGED <<data, ret, walk, heap, docs, tx, event, snapshot, surface>>

CallIsNodeUnwrappable ==
    \E type \in QueriedTypes :
        /\ call.op = "none"
        /\ call' = [op |-> "isNodeUnwrappable", type |-> type]
        /\ flag' = isNodeUnwrappable(type)
        /\ UNCHANGED <<data, ret, walk, heap, docs, tx, event, snapshot, surface>>

CallCanNodeContainContent ==
    \E type \in QueriedTypes :
        /\ call.op = "none"
        /\ call' = [op |-> "canNodeContainContent", type |-> type]
        /\ flag' = canNodeContainContent(type)
        /\ UNCHANGED <<data, ret, walk, heap, docs, tx, event, snapshot, surface>>

CallCanNodeTakeAnnotationType ==
    \E type \in QueriedTypes, annotation \in QueriedAnnotations :
        /\ call.op = "none"
        /\ call' = [op |-> "canNodeTakeAnnotationType", type |-> type,
                    annotation |-> annotation]
        /\ flag' = canNodeTakeAnnotationType(type, annotation)
        /\ UNCHANGED <<data, ret, walk, heap, docs, tx, event, snapshot, surface>>

CallIsNodeContent ==
    \E type \in QueriedTypes :
        /\ call.op = "none"
        /\ call' = [op |-> "isNodeContent", type |-> type]
        /\ flag' = isNodeContent(type)
        /\ UNCHANGED <<data, ret, walk, heap, docs, tx, event, snapshot, surface>>

CallIsNodeFocusable ==
    \E type \in QueriedTypes :
        /\ call.op = "none"
        /\ call' = [op |-> "isNodeFocusable", type |-> type]
        /\ flag' = isNodeFocusable(type)
        /\ UNCHANGED <<data, ret, walk, heap, docs, tx, event, snapshot, surface>>

CallDoesNodeHaveSignificantWhitespace ==
    \E type \in QueriedTypes :
        /\ call.op = "none"
        /\ call' = [op |-> "doesNodeHaveSignificantWhitespace", type |-> type]
        /\ flag' = doesNodeHaveSignificantWhitespace(type)
        /\ UNCHANGED <<data, ret, walk, heap, docs, tx, event, snapshot, surface>>

CallDoesNodeHandleOwnChildren ==
    \E type \in QueriedTypes :
        /\ call.op = "none"
        /\ call' = [op |-> "doesNodeHandleOwnChildren", type |-> type]
        /\ flag' = doesNodeHandleOwnChildren(type)
        /\ UNCHANGED <<data, ret, walk, heap, docs, tx, event, snapshot, surface>>

CallShouldIgnoreChildren ==
    \E type \in QueriedTypes :
        /\ call.op = "none"
        /\ call' = [op |-> "shouldIgnoreChildren", type |-> type]
        /\ flag' = shouldIgnoreChildren(type)
        /\ UNCHANGED <<data, ret, walk, heap, docs, tx, event, snapshot, surface>>

CallIsNodeInternal ==
    \E type \in QueriedTypes :
        /\ call.op = "none"
        /\ call' = [op |-> "isNodeInternal", type |-> type]
        /\ flag' = isNodeInternal(type)
        /\ UNCHANGED <<data, ret, walk, heap, docs, tx, event, snapshot, surface>>

CallIsNodeDeletable ==
    \E type \in QueriedTypes :
        /\ call.op = "none"
        /\ call' = [op |-> "isNodeDeletable", type |-> type]
        /\ flag' = isNodeDeletable(type)
        /\ UNCHANGED <<data, ret, walk, heap, docs, tx, event, snapshot, surface>>

FactoryNext ==
    \/ CallGetDataElement
    \/ CallGetChildNodeTypes
    \/ CallGetParentNodeTypes
    \/ CallGetSuggestedParentNodeTypes
    \/ CallCanNodeHaveChildren
    \/ CallCanNodeHaveChildrenNotContent
    \/ CallIsNodeWrapped
    \/ CallIsNodeUnwrappable
    \/ CallCanNodeContainContent
    \/ CallCanNodeTakeAnnotationType
    \/ CallIsNodeContent
    \/ CallIsNodeFocusable
    \/ CallDoesNodeHaveSignificantWhitespace
    \/ CallDoesNodeHandleOwnChildren
    \/ CallShouldIgnoreChildren
    \/ CallIsNodeInternal
    \/ CallIsNodeDeletable

SpecFactory == FactoryInit /\ [][FactoryNext]_vars

(***************************************************************************)
(* trimOuterSpaceFromRange                                                 *)
(***************************************************************************)
\* while ( this.getCharacterData( end - 1 ).match( /\s/ ) ) { end--; }
RECURSIVE trimEnd(_, _)
trimEnd(d, end) ==
    IF isWhitespace(getCharacterData(d, end - 1)) THEN trimEnd(d, end - 1) ELSE end

\* while ( start < end && this.getCharacterData( start ).match( /\s/ ) ) { start++; }
RECURSIVE trimStart(_, _, _)
trimStart(d, start, end) ==
    IF start < end /\ isWhitespace(getCharacterData(d, start))
    THEN trimStart(d, start + 1, end)
    ELSE start

\* the return statement, start and end being the trimmed ones
trimmedRange(range, start, end) ==
    IF range.to < range.end THEN Range(end, start) ELSE Range(start, end)

trimOuterSpaceFromRange(d, range) ==
    trimmedRange(range, trimStart(d, range.start, trimEnd(d, range.end)),
                 trimEnd(d, range.end))

(***************************************************************************)
(* Specification of trimOuterSpaceFromRange: the data is a paragraph of    *)
(* letters and whitespace, and the range one between two of its offsets.   *)
(***************************************************************************)
TrimCharacters == {Char("a"), Char(Space), AnnChar(Space, <<0>>), Char(NewLine)}

RECURSIVE TextOfLen(_)
TextOfLen(n) ==
    IF n = 0 THEN {<<>>}
    ELSE {<<c>> \o text : c \in TrimCharacters, text \in TextOfLen(n - 1)}

TrimData(maxLen) ==
    {<<Open("paragraph")>> \o text \o <<Close("paragraph")>> :
        text \in UNION {TextOfLen(n) : n \in 0..maxLen}}

TrimInit ==
    /\ data \in TrimData(MaxTrimLen)
    /\ call = NoCall
    /\ flag = F
    /\ ret = 0
    /\ walk = IdleWalk
    /\ heap = <<>>
    /\ docs = <<>>
    /\ tx = <<>>
    /\ event = <<>>
    /\ snapshot = <<>>
    /\ surface = NoSurface

CallTrimOuterSpaceFromRange ==
    \E from \in 0..Len(data), to \in 0..Len(data) :
        /\ call.op = "none"
        /\ call' = [op |-> "trimOuterSpaceFromRange", range |-> Range(from, to)]
        /\ ret' = trimOuterSpaceFromRange(data, Range(from, to))
        /\ UNCHANGED <<data, flag, walk, heap, docs, tx, event, snapshot, surface>>

TrimNext == CallTrimOuterSpaceFromRange

SpecTrim == TrimInit /\ [][TrimNext]_vars

(***************************************************************************)
(* ve.ce.Surface: getNearestCorrectOffset.  A slug is an empty place the   *)
(* document view puts at a structural offset so that the cursor can stand  *)
(* there; the surface holds the offsets that have one.                     *)
(***************************************************************************)
hasSlugAtOffset_Always(slugs, offset) == TRUE

\* !!this.documentView.getSlugAtOffset( offset )
hasSlugAtOffset(slugs, offset) == offset \in slugs

\* the choice between the two candidates once the structural one has a slug
correctOf(direction, offset, contentOffset, structuralOffset) ==
    IF direction = 1
    THEN IF contentOffset < offset THEN structuralOffset
         ELSE IF contentOffset < structuralOffset THEN contentOffset ELSE structuralOffset
    ELSE IF contentOffset > offset THEN structuralOffset
         ELSE IF contentOffset > structuralOffset THEN contentOffset ELSE structuralOffset

correctFrom(slugs, direction, offset, contentOffset, structuralOffset) ==
    IF contentOffset = Thrown \/ structuralOffset = Thrown THEN Thrown
    ELSE IF ~hasSlugAtOffset(slugs, structuralOffset) THEN contentOffset
    ELSE correctOf(direction, offset, contentOffset, structuralOffset)

\* the search once the direction is 1 or -1: both candidates are computed once
correctToward(d, slugs, offset, sign) ==
    CHOOSE result \in
        {correctFrom(slugs, sign, offset, contentOffset, structuralOffset) :
            contentOffset \in {getNearestContentOffset(d, offset, Direction(sign))},
            structuralOffset \in
                {getNearestStructuralOffset(d, offset, Direction(sign), TRUE)}} : TRUE

correctUnless(valid, d, slugs, offset, direction) ==
    IF valid = Throw THEN Thrown
    ELSE IF valid = T \/ hasSlugAtOffset(slugs, offset) THEN offset
    ELSE correctToward(d, slugs, offset, signOf(direction))

getNearestCorrectOffset(d, slugs, offset, direction) ==
    correctUnless(isContentOffset(d, offset), d, slugs, offset, direction)

\* the offsets a slug can be at: the places between two nodes or at an edge of one
SlugOffsets(d) == {o \in 0..Len(d) : isStructuralOffset(d, o, TRUE) = T}

CursorData(maxLen) == UNION {BalancedOfLen(n) : n \in 0..maxLen}

CursorInit ==
    /\ data \in CursorData(MaxCursorLen)
    /\ call = NoCall
    /\ flag = F
    /\ ret = 0
    /\ walk = IdleWalk
    /\ heap = <<>>
    /\ docs = <<>>
    /\ tx = <<>>
    /\ event = <<>>
    /\ snapshot = <<>>
    /\ surface \in {[slugs |-> s] : s \in SUBSET SlugOffsets(data)}

CallGetNearestCorrectOffset ==
    \E offset \in 0..Len(data), direction \in Directions :
        /\ call.op = "none"
        /\ call' = [op |-> "getNearestCorrectOffset", offset |-> offset,
                    direction |-> direction]
        /\ ret' = getNearestCorrectOffset(data, surface.slugs, offset, direction)
        /\ UNCHANGED <<data, flag, walk, heap, docs, tx, event, snapshot, surface>>

CursorNext == CallGetNearestCorrectOffset

SpecCursor == CursorInit /\ [][CursorNext]_vars

(***************************************************************************)
(* ve.ce.Surface: onPaste.  The handler of the paste event starts the      *)
(* paste and defers its completion with setTimeout; the document is one   *)
(* paragraph of text, on which a removal takes the selected characters    *)
(* out and an insertion puts the pasted ones in at an offset.             *)
(***************************************************************************)
isPasting_Never(s) == FALSE

\* if ( this.pasting )
isPasting(s) == s.pasting

\* ve.dm.Transaction.newFromRemoval( doc, selection ), committed: inside one text
\* the items of the range are taken out
removeRange(d, range) == SubSeq(d, 1, range.start) \o SubSeq(d, range.end + 1, Len(d))

\* ve.dm.Transaction.newFromInsertion( doc, offset, insertion ), committed
insertAt(d, offset, insertion) ==
    SubSeq(d, 1, offset) \o insertion \o SubSeq(d, offset + 1, Len(d))

\* the callback given to setTimeout, with the variables it closes over
PasteCallback(selection) == [selection |-> selection]

\* what the last event handler did with its event
Handled(prevented, returned) == [prevented |-> prevented, returned |-> returned]

(***************************************************************************)
(* ve.ce.Surface: handleDelete and handleEnter.  The nodes of the          *)
(* document view are named by the index of their opening marker in the     *)
(* data: the node tree is the nesting of the markers.                      *)
(***************************************************************************)
\* the opening markers that are open at the offset, the innermost first
RECURSIVE enclosing(_, _, _, _)
enclosing(d, n, offset, opened) ==
    IF n > offset THEN opened
    ELSE IF d[n].k # "element" THEN enclosing(d, n + 1, offset, opened)
    ELSE IF ~d[n].close THEN enclosing(d, n + 1, offset, <<n>> \o opened)
    ELSE enclosing(d, n + 1, offset, Tail(opened))

\* the index of the closing marker of the node opened at index n - depth counted
RECURSIVE closingFrom(_, _, _)
closingFrom(d, n, depth) ==
    IF d[n].k # "element" THEN closingFrom(d, n + 1, depth)
    ELSE IF ~d[n].close THEN closingFrom(d, n + 1, depth + 1)
    ELSE IF depth = 1 THEN n
    ELSE closingFrom(d, n + 1, depth - 1)

\* the index of the closing marker of the node whose opening marker is at index node
closingOf(d, node) == closingFrom(d, node + 1, 1)

\* the markers between the indexes n and end whose partner is not between them
RECURSIVE unmatchedIn(_, _, _, _, _)
unmatchedIn(d, n, end, opened, found) ==
    IF n > end THEN found \cup {opened[k] : k \in DOMAIN opened}
    ELSE IF d[n].k # "element" THEN unmatchedIn(d, n + 1, end, opened, found)
    ELSE IF ~d[n].close THEN unmatchedIn(d, n + 1, end, <<n>> \o opened, found)
    ELSE IF opened # <<>> THEN unmatchedIn(d, n + 1, end, Tail(opened), found)
    ELSE unmatchedIn(d, n + 1, end, opened, found \cup {n})

\* the items of d at the indexes of keep, in their order
RECURSIVE itemsAt(_, _, _)
itemsAt(d, n, keep) ==
    IF n > Len(d) THEN <<>>
    ELSE (IF n \in keep THEN <<d[n]>> ELSE <<>>) \o itemsAt(d, n + 1, keep)

\* every closing marker of d closes the node opened last, and none stays open
RECURSIVE nests(_, _, _)
nests(d, n, opened) ==
    IF n > Len(d) THEN opened = <<>>
    ELSE IF d[n].k # "element" THEN nests(d, n + 1, opened)
    ELSE IF ~d[n].close THEN nests(d, n + 1, <<d[n].t>> \o opened)
    ELSE opened # <<>> /\ Head(opened) = d[n].t /\ nests(d, n + 1, Tail(opened))

\* the removal takes the markers of the range along when the nodes they leave
\* half open can be merged, and else leaves those whose partner lies outside
removalOf(d, range, exact) ==
    IF nests(exact, 1, <<>>) THEN exact
    ELSE itemsAt(d, 1, (1..range.start) \cup ((range.end + 1)..Len(d))
                       \cup unmatchedIn(d, range.start + 1, range.end, <<>>, {}))

\* ve.dm.Transaction.newFromRemoval( doc, range ), committed: the items of the range
\* are taken out as far as the document stays balanced
newFromRemoval(d, range) ==
    removalOf(d, range, splice(d, range.start, range.end - range.start))

\* the transactions a handler gave to this.model.change
Removal(range) ==
    [type |-> "removal", offset |-> range.start, length |-> range.end - range.start,
     data |-> <<>>]
Insertion(offset, items) ==
    [type |-> "insertion", offset |-> offset, length |-> 0, data |-> items]

collapsedAt_To(selection) == Range(selection.to, selection.to)

\* new ve.Range( selection.start )
collapsedAt(selection) == Range(selection.start, selection.start)

\* ve.ce.Node.prototype.canBeSplit of the view of a node type
canBeSplit(type) == type \in {"paragraph", "heading", "preformatted", "listItem"}

\* node.model.getClonedElement(): a copy of the opening element
getClonedElement(item) == item

stackMiddle_End(stack) == Len(stack)

\* stack.length / 2
stackMiddle(stack) == Len(stack) \div 2

\* the body of the callback for a node that can be split
splitNode(d, node, found) ==
    [stack |-> spliceIn(found.stack, stackMiddle(found.stack), 0,
                        <<Close(d[node].t), getClonedElement(d[node])>>),
     outermostNode |-> node]

\* ve.Node.traverseUpstream( node, callback ): the callback is given the node and
\* then its ancestors until it returns false
RECURSIVE traverseUpstream(_, _, _, _)
traverseUpstream(d, chain, shiftKey, found) ==
    IF chain = <<>> THEN found
    ELSE IF ~canBeSplit(d[Head(chain)].t) THEN found
    ELSE IF shiftKey THEN splitNode(d, Head(chain), found)
    ELSE traverseUpstream(d, Tail(chain), shiftKey, splitNode(d, Head(chain), found))

NoNode == 0
emptyParagraph == <<Open("paragraph"), Close("paragraph")>>

\* the end of handleEnter: the cursor is moved on the data the transactions left
entered(d, from, advanceCursor, transactions, how) ==
    [data |-> d,
     cursor |-> IF advanceCursor THEN getRelativeContentOffset(d, from, 1)
                ELSE getNearestContentOffset(d, from, NoDirection),
     transactions |-> transactions,
     how |-> how]

\* node.getOuterRange(): from before the opening to after the closing marker
getOuterRange(d, node) == Range(node - 1, closingOf(d, node))

\* Enter was pressed in an empty list item: the item is removed and a paragraph
\* inserted after the list
leaveList(d, cursor, list, outerRange, removed) ==
    entered(spliceIn(removed, getOuterRange(removed, list).to, 0, emptyParagraph),
            cursor, FALSE,
            <<Removal(outerRange),
              Insertion(getOuterRange(removed, list).to, emptyParagraph)>>,
            "listItemRemoved")

\* the list item is the last one of its parent, has one child, and the node is empty
inEmptyLastItem(d, node, outermostNode) ==
    /\ d[outermostNode].t = "listItem"
    /\ closingOf(d, outermostNode) < Len(d)
    /\ d[closingOf(d, outermostNode) + 1].k = "element"
    /\ d[closingOf(d, outermostNode) + 1].close
    /\ d[outermostNode + 1].k = "element"
    /\ ~d[outermostNode + 1].close
    /\ closingOf(d, outermostNode + 1) + 1 = closingOf(d, outermostNode)
    /\ closingOf(d, node) = node + 1

splitAt(d, cursor, chain, node, found) ==
    IF found.outermostNode = NoNode
    THEN [data |-> d, cursor |-> cursor, transactions |-> <<>>, how |-> "thrown"]
    ELSE IF inEmptyLastItem(d, node, found.outermostNode)
    THEN leaveList(d, cursor, Head(enclosing(d, 1, found.outermostNode - 1, <<>>)),
                   getOuterRange(d, found.outermostNode),
                   newFromRemoval(d, getOuterRange(d, found.outermostNode)))
    ELSE entered(spliceIn(d, cursor, 0, found.stack), cursor, TRUE,
                 <<Insertion(cursor, found.stack)>>, "split")

enterIn(d, cursor, shiftKey, chain, node, closing) ==
    IF d[node].t # "paragraph" /\ (cursor = node \/ cursor = closing - 1)
    THEN IF cursor = node
         THEN entered(spliceIn(d, getOuterRange(d, node).from, 0, emptyParagraph),
                      cursor, TRUE,
                      <<Insertion(getOuterRange(d, node).from, emptyParagraph)>>,
                      "paragraphBefore")
         ELSE entered(spliceIn(d, getOuterRange(d, node).to, 0, emptyParagraph),
                      cursor, TRUE,
                      <<Insertion(getOuterRange(d, node).to, emptyParagraph)>>,
                      "paragraphAfter")
    ELSE splitAt(d, cursor, chain, node,
                 traverseUpstream(d, chain, shiftKey,
                                  [stack |-> <<>>, outermostNode |-> NoNode]))

enterAt(d, cursor, shiftKey, chain) ==
    enterIn(d, cursor, shiftKey, chain, Head(chain), closingOf(d, Head(chain)))

\* handleEnter with a collapsed selection at the cursor
handleEnter(d, cursor, shiftKey) == enterAt(d, cursor, shiftKey, enclosing(d, 1, cursor, <<>>))

\* the documents of the key handlers: paragraphs, headings and lists of paragraphs
KeyTexts(maxLen) == UNION {[1..n -> {Char("a")}] : n \in 0..maxLen}
KeyBranches(maxLen) ==
    {<<Open(t)>> \o text \o <<Close(t)>> :
        t \in {"paragraph", "heading"}, text \in KeyTexts(maxLen)}
KeyItems(maxLen) ==
    {<<Open("listItem")>> \o branch \o <<Close("listItem")>> : branch \in KeyBranches(maxLen)}
KeyLists(maxLen) ==
    {<<Open("list")>> \o item \o <<Close("list")>> : item \in KeyItems(maxLen)}
    \cup {<<Open("list")>> \o first \o second \o <<Close("list")>> :
            first \in KeyItems(0), second \in KeyItems(maxLen)}
KeyDocuments(maxLen) ==
    KeyBranches(maxLen) \cup KeyLists(maxLen)
    \cup {first \o second : first \in KeyBranches(maxLen),
                            second \in KeyBranches(1) \cup KeyLists(0)}

\* the offsets a cursor can be at
CursorOffsets(d) == {o \in 0..Len(d) : isContentOffset(d, o) = T}

KeysInit ==
    /\ data \in KeyDocuments(MaxKeyTextLen)
    /\ call = NoCall
    /\ flag = F
    /\ ret = 0
    /\ walk = IdleWalk
    /\ heap = <<>>
    /\ docs = <<>>
    /\ tx = <<>>
    /\ event = <<>>
    /\ snapshot = <<>>
    /\ surface \in
        {[selection |-> Range(from, to), transactions |-> <<>>, observing |-> TRUE,
          handled |-> Handled(FALSE, "undefined")] :
            from \in CursorOffsets(data), to \in CursorOffsets(data)}

\* Backspace or Delete is pressed while the selection is not collapsed
HandleDelete ==
    \E backspace \in BOOLEAN :
        /\ call.op = "none"
        /\ surface.selection.from # surface.selection.to
        /\ call' = [op |-> "handleDelete", backspace |-> backspace, shiftKey |-> FALSE,
                    selection |-> surface.selection, how |-> "removal"]
        /\ snapshot' = data
        /\ data' = newFromRemoval(data, surface.selection)
        /\ surface' = [surface EXCEPT
                          !.selection = collapsedAt(surface.selection),
                          !.transactions = Append(@, Removal(surface.selection)),
                          !.handled = Handled(TRUE, "undefined")]
        /\ UNCHANGED <<flag, ret, walk, heap, docs, tx, event>>

\* Enter is pressed, with or without Shift, while the selection is collapsed
HandleEnter ==
    \E shiftKey \in BOOLEAN :
        \E result \in {handleEnter(data, surface.selection.from, shiftKey)} :
            /\ call.op = "none"
            /\ surface.selection.from = surface.selection.to
            /\ call' = [op |-> "handleEnter", backspace |-> FALSE, shiftKey |-> shiftKey,
                        selection |-> surface.selection, how |-> result.how]
            /\ snapshot' = data
            /\ data' = result.data
            /\ surface' = [surface EXCEPT
                              !.selection = Range(result.cursor, result.cursor),
                              !.transactions = @ \o result.transactions]
            /\ UNCHANGED <<flag, ret, walk, heap, docs, tx, event>>

KeysNext == HandleDelete \/ HandleEnter

SpecKeys == KeysInit /\ [][KeysNext]_vars

(***************************************************************************)
(* ve.ce.Surface: the paste event and its deferred callback.  The pasted   *)
(* data is a slice of the clipboard or the pasted text.                    *)
(***************************************************************************)
\* ve.dm.DocumentSlice: the data of the copied range and the balanced fragment
\* around it
DocumentSlice(d, balanced) == [data |-> d, balanced |-> balanced]

\* pasteData.getData()
getSliceData(slice) == slice.data

getBalancedData_Data(slice) == slice.data

\* pasteData.getBalancedData()
getBalancedData(slice) == slice.balanced

\* ve.dm.Transaction.newFromInsertion throws: the data does not fit the
\* document at the offset, which would not be balanced with it
insertionThrows(d, offset, insertion) == ~nests(insertAt(d, offset, insertion), 1, <<>>)

\* the try and the catch of the callback: the data of the transaction built, or
\* the exception that leaves the callback
builtInsertion(d, offset, slice) ==
    IF ~insertionThrows(d, offset, getSliceData(slice))
    THEN [thrown |-> FALSE, data |-> getSliceData(slice)]
    ELSE IF ~insertionThrows(d, offset, getBalancedData(slice))
    THEN [thrown |-> FALSE, data |-> getBalancedData(slice)]
    ELSE [thrown |-> TRUE, data |-> <<>>]

\* pasted text, and slices of the clipboard: a letter and the end of its
\* paragraph, the end of a paragraph and the start of the next
PastedData ==
    {DocumentSlice(<<Char("a")>>, <<Char("a")>>),
     DocumentSlice(<<Char("a"), Char("a")>>, <<Char("a"), Char("a")>>),
     DocumentSlice(<<Char("a"), Close("paragraph")>>,
                   <<Open("paragraph"), Char("a"), Close("paragraph")>>),
     DocumentSlice(<<Close("paragraph"), Open("paragraph")>>,
                   <<Open("paragraph"), Close("paragraph"),
                     Open("paragraph"), Close("paragraph")>>)}
PasteTexts(maxLen) ==
    UNION {{<<Open("paragraph")>> \o text \o <<Close("paragraph")>> :
               text \in [1..n -> {Char("a")}]} : n \in 0..maxLen}

PasteInit ==
    /\ data \in PasteTexts(MaxPasteLen)
    /\ call = NoCall
    /\ flag = F
    /\ ret = 0
    /\ walk = IdleWalk
    /\ heap = <<>>
    /\ docs = <<>>
    /\ tx = <<>>
    /\ event = <<>>
    /\ snapshot = <<>>
    /\ surface \in
        {[pasting |-> FALSE, timers |-> <<>>, selection |-> Range(from, to),
          focus |-> "document", observing |-> TRUE, transactions |-> 0,
          handled |-> Handled(FALSE, "undefined")] :
            from \in 1..(Len(data) - 1), to \in 1..(Len(data) - 1)}

\* a paste event reaches the surface; isCollapsed is what rangy.getSelection()
\* answers for the selection of the browser
OnPaste ==
    \E isCollapsed \in BOOLEAN :
        IF isPasting(surface)
        THEN /\ surface' = [surface EXCEPT !.handled = Handled(TRUE, "false")]
             /\ UNCHANGED <<linVars, heap, docs, tx, event, snapshot>>
        ELSE /\ surface.transactions + 2 <= MaxPasteTransactions
             /\ data' = IF isCollapsed THEN data
                        ELSE removeRange(data, surface.selection)
             /\ surface' =
                    [surface EXCEPT
                        !.pasting = TRUE,
                        !.observing = FALSE,
                        !.transactions = IF isCollapsed THEN @ ELSE @ + 1,
                        !.focus = "paste",
                        !.timers = Append(@, PasteCallback(surface.selection)),
                        !.handled = Handled(FALSE, "undefined")]
             /\ UNCHANGED <<call, flag, ret, walk, heap, docs, tx, event, snapshot>>

\* the deferred callback of the oldest paste runs: an exception that leaves it
\* skips the rest of it
PasteTimeout ==
    /\ surface.timers # <<>>
    /\ \E pasteData \in PastedData :
        \E built \in {builtInsertion(data, Head(surface.timers).selection.start, pasteData)} :
            /\ data' = IF built.thrown THEN data
                       ELSE insertAt(data, Head(surface.timers).selection.start, built.data)
            /\ surface' =
                    IF built.thrown THEN [surface EXCEPT !.timers = Tail(@)]
                    ELSE [surface EXCEPT
                             !.timers = Tail(@),
                             !.focus = "document",
                             !.transactions = @ + 1,
                             !.selection =
                                 Range(Head(surface.timers).selection.start + Len(built.data),
                                       Head(surface.timers).selection.start + Len(built.data)),
                             !.pasting = FALSE]
            /\ UNCHANGED <<call, flag, ret, walk, heap, docs, tx, event, snapshot>>

PasteNext == OnPaste \/ PasteTimeout

SpecPaste == PasteInit /\ [][PasteNext]_vars

\* setTimeout( ..., 0 ): the browser runs every callback it was given
SpecPasteFair == PasteInit /\ [][PasteNext]_vars /\ WF_vars(PasteTimeout)

(***************************************************************************)
(* ve.ce.Surface.clearLocalStorage.  The storage of the browser is the     *)
(* sequence of its entries in the order localStorage.key( i ) enumerates   *)
(* them; a key is the sequence of its characters and the stored time is    *)
(* counted in hours.                                                       *)
(***************************************************************************)
\* 24 * 3600 * 1000 milliseconds, in hours
Day == 24
\* new Date().getTime(), in hours
Now == 100

Entry(key, time) == [key |-> key, time |-> time]

\* key.indexOf( 've-' ) !== 0
isForeignKey(key) == ~(Len(key) >= 3 /\ SubSeq(key, 1, 3) = <<"v", "e", "-">>)

\* now - time > ( 24 * 3600 * 1000 )
isExpired(time) == Now - time > Day

\* the for loop from index i on: the keys to remove, or the return it ends with
RECURSIVE scanStorage(_, _, _)
scanStorage(storage, i, keysToRemove) ==
    IF i > Len(storage) THEN [returned |-> "undefined", keysToRemove |-> keysToRemove]
    ELSE IF isForeignKey(storage[i].key)
    THEN [returned |-> "false", keysToRemove |-> <<>>]
    ELSE scanStorage(storage, i + 1,
                     IF isExpired(storage[i].time)
                     THEN Append(keysToRemove, storage[i].key) ELSE keysToRemove)

\* localStorage.removeItem( val )
removeItem(storage, val) == SelectSeq(storage, LAMBDA entry : entry.key # val)

\* $.each( keysToRemove, function ( i, val ) { localStorage.removeItem( val ); } )
RECURSIVE removeItems(_, _)
removeItems(storage, keysToRemove) ==
    IF keysToRemove = <<>> THEN storage
    ELSE removeItems(removeItem(storage, Head(keysToRemove)), Tail(keysToRemove))

clearFrom(storage, scanned) ==
    [returned |-> scanned.returned,
     storage |-> IF scanned.returned = "false" THEN storage
                 ELSE removeItems(storage, scanned.keysToRemove)]

clearLocalStorage(storage) == clearFrom(storage, scanStorage(storage, 1, <<>>))

StorageKeys ==
    {<<"v", "e", "-", "a">>, <<"v", "e", "-", "b">>, <<"v", "e">>, <<"x", "v", "e", "-">>}
StorageTimes == {Now - Day - 1, Now - Day, Now - 1}
\* the storages of n entries: no key is stored twice
Storages(maxLen) ==
    UNION {{s \in [1..n -> {Entry(k, t) : k \in StorageKeys, t \in StorageTimes}] :
               \A i \in 1..n, j \in 1..n : i # j => s[i].key # s[j].key} : n \in 0..maxLen}

StorageInit ==
    /\ data = <<>>
    /\ call = NoCall
    /\ flag = F
    /\ ret = 0
    /\ walk = IdleWalk
    /\ heap = <<>>
    /\ docs = <<>>
    /\ tx = <<>>
    /\ event = <<>>
    /\ snapshot = <<>>
    /\ surface \in {[storage |-> s, returned |-> "undefined"] : s \in Storages(MaxStorageLen)}

CallClearLocalStorage ==
    \E result \in {clearLocalStorage(surface.storage)} :
        /\ call.op = "none"
        /\ call' = [op |-> "clearLocalStorage"]
        /\ snapshot' = surface.storage
        /\ surface' = [storage |-> result.storage, returned |-> result.returned]
        /\ UNCHANGED <<data, flag, ret, walk, heap, docs, tx, event>>

StorageNext == CallClearLocalStorage

SpecStorage == StorageInit /\ [][StorageNext]_vars

(***************************************************************************)
(* ve.ce.Surface.onContentChange.  The observed node is the paragraph at   *)
(* offset 0 of the document, its text the characters between its markers;  *)
(* previous and next are what the surface observer saw before and after    *)
(* the change: the text of the node and the selection, which may be absent.*)
(***************************************************************************)
Observed(text, range) == [text |-> text, range |-> range]

\* String.prototype.substring( from, to ): both ends are clamped to the string
\* and swapped when from > to
clamp(n, len) == IF n < 0 THEN 0 ELSE IF n > len THEN len ELSE n
substring(text, from, to) ==
    IF clamp(from, Len(text)) <= clamp(to, Len(text))
    THEN SubSeq(text, clamp(from, Len(text)) + 1, clamp(to, Len(text)))
    ELSE SubSeq(text, clamp(to, Len(text)) + 1, clamp(from, Len(text)))
substringFrom(text, from) == substring(text, from, Len(text))

\* range.isCollapsed()
isCollapsed(range) == range.from = range.to

\* text.split( '' ) as linear data
split(text) == [n \in 1..Len(text) |-> Char(text[n])]

\* node.getModel().getOffset()
nodeOffset == 0

\* offsetDiff is null unless both selections are collapsed
hasOffsetDiff(previous, next) == isCollapsed(previous.range) /\ isCollapsed(next.range)
offsetDiffOf(previous, next) == next.range.start - previous.range.start
lengthDiffOf(previous, next) == Len(next.text) - Len(previous.text)
previousStartOf(previous) == previous.range.start - nodeOffset - 1
nextStartOf(next) == next.range.start - nodeOffset - 1

sameLeadingAndTrailing(previous, next) ==
    /\ hasOffsetDiff(previous, next)
    /\ \/ /\ lengthDiffOf(previous, next) > 0
          /\ substring(previous.text, 0, previousStartOf(previous)) =
                 substring(next.text, 0, previousStartOf(previous))
          /\ substringFrom(previous.text, previousStartOf(previous)) =
                 substringFrom(next.text, nextStartOf(next))
       \/ /\ lengthDiffOf(previous, next) < 0
          /\ substring(previous.text, 0, nextStartOf(next)) =
                 substring(next.text, 0, nextStartOf(next))
          /\ substringFrom(previous.text,
                           previousStartOf(previous) - lengthDiffOf(previous, next)
                               + offsetDiffOf(previous, next)) =
                 substringFrom(next.text, nextStartOf(next))

\* if ( lengthDiff > 0 && offsetDiff === lengthDiff /* && sameLeadingAndTrailing */ )
isSimpleInsertion(previous, next) ==
    /\ previous.range.defined /\ next.range.defined
    /\ lengthDiffOf(previous, next) > 0
    /\ hasOffsetDiff(previous, next)
    /\ offsetDiffOf(previous, next) = lengthDiffOf(previous, next)

\* if ( ( offsetDiff === 0 || offsetDiff === lengthDiff ) && sameLeadingAndTrailing )
isSimpleDeletion(previous, next) ==
    /\ previous.range.defined /\ next.range.defined
    /\ ~isSimpleInsertion(previous, next)
    /\ hasOffsetDiff(previous, next)
    /\ offsetDiffOf(previous, next) \in {0, lengthDiffOf(previous, next)}
    /\ sameLeadingAndTrailing(previous, next)

simpleInsertion(previous, next) ==
    <<Insertion(previous.range.start,
                split(substring(next.text, previousStartOf(previous), nextStartOf(next))))>>

simpleDeletion(previous, next) ==
    <<Removal(IF offsetDiffOf(previous, next) = 0
              THEN Range(next.range.start, next.range.start - lengthDiffOf(previous, next))
              ELSE Range(next.range.start, previous.range.start))>>

\* Math.min( previous.text.length, next.text.length )
minLength(previous, next) ==
    IF Len(previous.text) < Len(next.text) THEN Len(previous.text) ELSE Len(next.text)

\* while ( fromLeft < len && previous.text[fromLeft] === next.text[fromLeft] )
RECURSIVE fromLeftOf(_, _, _)
fromLeftOf(previous, next, fromLeft) ==
    IF /\ fromLeft < minLength(previous, next)
       /\ previous.text[fromLeft + 1] = next.text[fromLeft + 1]
    THEN fromLeftOf(previous, next, fromLeft + 1) ELSE fromLeft

\* while ( fromRight < len - fromLeft && previous.text[previous.text.length - 1 -
\* fromRight] === next.text[next.text.length - 1 - fromRight] )
RECURSIVE fromRightOf(_, _, _, _)
fromRightOf(previous, next, fromLeft, fromRight) ==
    IF /\ fromRight < minLength(previous, next) - fromLeft
       /\ previous.text[Len(previous.text) - fromRight] =
              next.text[Len(next.text) - fromRight]
    THEN fromRightOf(previous, next, fromLeft, fromRight + 1) ELSE fromRight

\* the complex change, fromLeft and fromRight counted
complexOf(previous, next, fromLeft, fromRight) ==
    LET inserted == split(substring(next.text, fromLeft, Len(next.text) - fromRight))
    IN  (IF Len(inserted) > 0
         THEN <<Insertion(nodeOffset + 1 + fromLeft, inserted)>> ELSE <<>>)
        \o (IF fromLeft + fromRight < Len(previous.text)
            THEN <<Removal(Range(Len(inserted) + nodeOffset + 1 + fromLeft,
                                 Len(inserted) + nodeOffset + 1 + Len(previous.text)
                                     - fromRight))>>
            ELSE <<>>)

complexAfter(previous, next, fromLeft) ==
    complexOf(previous, next, fromLeft, fromRightOf(previous, next, fromLeft, 0))

complexChange(previous, next) == complexAfter(previous, next, fromLeftOf(previous, next, 0))

\* newRange.isCollapsed() on a selection that is absent is a TypeError
complexThrows(next) == ~next.range.defined

\* this.model.change( transaction, range ), one transaction after the other
RECURSIVE change(_, _)
change(d, transactions) ==
    IF transactions = <<>> THEN d
    ELSE change(IF Head(transactions).type = "insertion"
                THEN insertAt(d, Head(transactions).offset, Head(transactions).data)
                ELSE newFromRemoval(d, Range(Head(transactions).offset,
                                             Head(transactions).offset
                                                 + Head(transactions).length)),
                Tail(transactions))

\* the path the handler takes and the transactions it issues
onContentChange(previous, next) ==
    IF isSimpleInsertion(previous, next)
    THEN [path |-> "insertion", transactions |-> simpleInsertion(previous, next)]
    ELSE IF isSimpleDeletion(previous, next)
    THEN [path |-> "deletion", transactions |-> simpleDeletion(previous, next)]
    ELSE IF complexThrows(next)
    THEN [path |-> "thrown", transactions |-> <<>>]
    ELSE [path |-> "complex", transactions |-> complexChange(previous, next)]

ChangeCharacters == {"a", "b"}
RECURSIVE ChangeTextOfLen(_)
ChangeTextOfLen(n) ==
    IF n = 0 THEN {<<>>}
    ELSE {<<c>> \o text : c \in ChangeCharacters, text \in ChangeTextOfLen(n - 1)}
ChangeTexts(maxLen) == UNION {ChangeTextOfLen(n) : n \in 0..maxLen}
\* the selections the observer can report for a node of this text: none, or a
\* range between two offsets inside the node
ObservedRanges(text) ==
    {NoRange} \cup {Range(from, to) : from \in 1..(Len(text) + 1), to \in 1..(Len(text) + 1)}
Observations(maxLen) ==
    {Observed(text, range) : text \in ChangeTexts(maxLen),
                             range \in UNION {ObservedRanges(t) : t \in ChangeTexts(maxLen)}}

ChangeInit ==
    /\ call = NoCall
    /\ flag = F
    /\ ret = 0
    /\ walk = IdleWalk
    /\ heap = <<>>
    /\ docs = <<>>
    /\ tx = <<>>
    /\ event = <<>>
    /\ snapshot = <<>>
    /\ surface \in {[previous |-> previous, next |-> next, path |-> "none",
                     transactions |-> <<>>] :
                       previous \in {o \in Observations(MaxChangeLen) :
                                        o.range \in ObservedRanges(o.text)},
                       next \in {o \in Observations(MaxChangeLen) :
                                    o.range \in ObservedRanges(o.text)}}
    /\ data = <<Open("paragraph")>> \o split(surface.previous.text)
                  \o <<Close("paragraph")>>

OnContentChange ==
    \E handled \in {onContentChange(surface.previous, surface.next)} :
        /\ call.op = "none"
        /\ call' = [op |-> "onContentChange"]
        /\ snapshot' = data
        /\ data' = change(data, handled.transactions)
        /\ surface' = [surface EXCEPT !.path = handled.path,
                                      !.transactions = handled.transactions]
        /\ UNCHANGED <<flag, ret, walk, heap, docs, tx, event>>

ChangeNext == OnContentChange

SpecContentChange == ChangeInit /\ [][ChangeNext]_vars

(***************************************************************************)
(* The mouse and key handlers of ve.ce.Surface that start and end a        *)
(* selection.  The surface holds the flags dragging, selecting and inIme,  *)
(* the browser ($.browser.msie), the events it has emitted and the event   *)
(* its last handler was given.  What onKeyDown does after line 473 (cursor *)
(* keys, Enter, Delete) reads and writes none of these.                    *)
(***************************************************************************)
DomEvent(type, shiftKey, keyCode) == [type |-> type, shiftKey |-> shiftKey, keyCode |-> keyCode]
NoEvent == DomEvent("none", FALSE, 0)

\* Shift, two arrow keys, a letter and the key code of an input method
KeyCodes == {16, 37, 40, 65, 229}
KeyEvents(type) == {DomEvent(type, shiftKey, keyCode) : shiftKey \in BOOLEAN, keyCode \in KeyCodes}
MouseEvents(type) == {DomEvent(type, shiftKey, 0) : shiftKey \in BOOLEAN}

\* this.emit( name )
emit(s, name) == [s EXCEPT !.emitted = Append(@, name)]

startsByDragging_Always(s) == s.dragging

\* this.dragging && !this.selecting
startsByDragging(s) == s.dragging /\ ~s.selecting

\* !e.shiftKey && this.selecting
endsOnMouseUp(s, e) == ~e.shiftKey /\ s.selecting

\* !this.dragging && this.selecting && e.keyCode === 16
endsOnKeyUp(s, e) == ~s.dragging /\ s.selecting /\ e.keyCode = 16

\* !this.dragging && !this.selecting && e.shiftKey && e.keyCode >= 37 &&
\* e.keyCode <= 40
startsByKey(s, e) ==
    ~s.dragging /\ ~s.selecting /\ e.shiftKey /\ e.keyCode >= 37 /\ e.keyCode <= 40

onMouseDown(s, e) == [s EXCEPT !.dragging = TRUE, !.last = e]

onMouseUp(s, e) ==
    [(IF endsOnMouseUp(s, e)
      THEN [emit(s, "selectionEnd") EXCEPT !.selecting = FALSE]
      ELSE s) EXCEPT !.dragging = FALSE, !.last = e]

onMouseMove(s, e) ==
    [(IF startsByDragging(s)
      THEN emit([s EXCEPT !.selecting = TRUE], "selectionStart")
      ELSE s) EXCEPT !.last = e]

onKeyUp(s, e) ==
    [(IF endsOnKeyUp(s, e)
      THEN emit([s EXCEPT !.selecting = FALSE], "selectionEnd")
      ELSE s) EXCEPT !.last = e]

onKeyDown(s, e) ==
    IF s.inIme THEN [s EXCEPT !.last = e]
    ELSE IF e.keyCode = 229 /\ s.msie THEN [s EXCEPT !.inIme = TRUE, !.last = e]
    ELSE [(IF startsByKey(s, e)
           THEN emit([s EXCEPT !.selecting = TRUE], "selectionStart")
           ELSE s) EXCEPT !.last = e]

onCompositionStart(s, e) ==
    IF s.msie THEN [s EXCEPT !.last = e] ELSE [s EXCEPT !.inIme = TRUE, !.last = e]

onCompositionEnd(s, e) == [s EXCEPT !.inIme = FALSE, !.last = e]

SelectInit ==
    /\ data = <<>>
    /\ call = NoCall
    /\ flag = F
    /\ ret = 0
    /\ walk = IdleWalk
    /\ heap = <<>>
    /\ docs = <<>>
    /\ tx = <<>>
    /\ event = <<>>
    /\ snapshot = <<>>
    /\ surface \in {[dragging |-> FALSE, selecting |-> FALSE, inIme |-> FALSE,
                     msie |-> msie, emitted |-> <<>>, last |-> NoEvent] :
                       msie \in BOOLEAN}

\* the run ends with the event that would emit one event too many
OnMouseDown ==
    \E e \in MouseEvents("mousedown") :
        /\ surface' = onMouseDown(surface, e)
        /\ UNCHANGED <<data, call, flag, ret, walk, heap, docs, tx, event, snapshot>>

OnMouseUp ==
    \E e \in MouseEvents("mouseup") :
        /\ Len(onMouseUp(surface, e).emitted) <= MaxSelectionEvents
        /\ surface' = onMouseUp(surface, e)
        /\ UNCHANGED <<data, call, flag, ret, walk, heap, docs, tx, event, snapshot>>

OnMouseMove ==
    \E e \in MouseEvents("mousemove") :
        /\ Len(onMouseMove(surface, e).emitted) <= MaxSelectionEvents
        /\ surface' = onMouseMove(surface, e)
        /\ UNCHANGED <<data, call, flag, ret, walk, heap, docs, tx, event, snapshot>>

OnKeyUp ==
    \E e \in KeyEvents("keyup") :
        /\ Len(onKeyUp(surface, e).emitted) <= MaxSelectionEvents
        /\ surface' = onKeyUp(surface, e)
        /\ UNCHANGED <<data, call, flag, ret, walk, heap, docs, tx, event, snapshot>>

OnKeyDown ==
    \E e \in KeyEvents("keydown") :
        /\ Len(onKeyDown(surface, e).emitted) <= MaxSelectionEvents
        /\ surface' = onKeyDown(surface, e)
        /\ UNCHANGED <<data, call, flag, ret, walk, heap, docs, tx, event, snapshot>>

OnCompositionStart ==
    /\ surface' = onCompositionStart(surface, DomEvent("compositionstart", FALSE, 0))
    /\ UNCHANGED <<data, call, flag, ret, walk, heap, docs, tx, event, snapshot>>

OnCompositionEnd ==
    /\ surface' = onCompositionEnd(surface, DomEvent("compositionend", FALSE, 0))
    /\ UNCHANGED <<data, call, flag, ret, walk, heap, docs, tx, event, snapshot>>

SelectNext ==
    \/ OnMouseDown
    \/ OnMouseUp
    \/ OnMouseMove
    \/ OnKeyUp
    \/ OnKeyDown
    \/ OnCompositionStart
    \/ OnCompositionEnd

SpecSelect == SelectInit /\ [][SelectNext]_vars

(***************************************************************************)
(* ve.init.Target: the surfaces of a target and its active surface.  A     *)
(* surface is named by the number of its creation; the target holds the    *)
(* list this.surfaces, the active surface this.surface, and the model      *)
(* keeps the surfaces that were destroyed.                                 *)
(***************************************************************************)
\* this.surface = null
NullSurface == 0

\* this.surface
getSurface(target) == target.surface

\* if ( surface !== this.surface ) { this.surface = surface; }
setSurface(target, s) ==
    IF s # target.surface THEN [target EXCEPT !.surface = s] ELSE target

\* this.surfaces.push( surface ); if ( !this.getSurface() ) { this.setSurface( surface ); }
addSurface(target, s) ==
    IF getSurface([target EXCEPT !.surfaces = Append(@, s)]) = NullSurface
    THEN setSurface([target EXCEPT !.surfaces = Append(@, s), !.created = s], s)
    ELSE [target EXCEPT !.surfaces = Append(@, s), !.created = s]

\* while ( this.surfaces.length ) { this.surfaces.pop().destroy(); }
RECURSIVE clearSurfaces(_)
clearSurfaces(target) ==
    IF Len(target.surfaces) = 0 THEN target
    ELSE clearSurfaces([target EXCEPT
                           !.surfaces = SubSeq(@, 1, Len(@) - 1),
                           !.destroyed = @ \cup {target.surfaces[Len(target.surfaces)]}])

\* this.setSurface( surface )
onSurfaceViewFocus(target, s) == setSurface(target, s)

\* this.clearSurfaces(); the toolbar and the element are removed
destroy(target) == [clearSurfaces(target) EXCEPT !.toolbar = FALSE, !.element = FALSE]

TargetCall(op, s, had) == [op |-> op, surface |-> s, hadSurface |-> had]

TargetInit ==
    /\ data = <<>>
    /\ call = TargetCall("none", NullSurface, FALSE)
    /\ flag = F
    /\ ret = 0
    /\ walk = IdleWalk
    /\ heap = <<>>
    /\ docs = <<>>
    /\ tx = <<>>
    /\ event = <<>>
    /\ snapshot = <<>>
    /\ surface \in {[surfaces |-> <<>>, surface |-> NullSurface, destroyed |-> {},
                     created |-> 0, toolbar |-> toolbar, element |-> TRUE] :
                       toolbar \in BOOLEAN}

\* the surfaces of the list: those whose view can fire a focus event
Listed(target) == {target.surfaces[n] : n \in 1..Len(target.surfaces)}

AddSurface ==
    /\ surface.created < MaxSurfaces
    /\ surface' = addSurface(surface, surface.created + 1)
    /\ call' = TargetCall("addSurface", surface.created + 1,
                          getSurface(surface) # NullSurface)
    /\ ret' = surface.created + 1
    /\ UNCHANGED <<data, flag, walk, heap, docs, tx, event, snapshot>>

ClearSurfaces ==
    /\ surface' = clearSurfaces(surface)
    /\ call' = TargetCall("clearSurfaces", NullSurface, getSurface(surface) # NullSurface)
    /\ UNCHANGED <<data, flag, ret, walk, heap, docs, tx, event, snapshot>>

OnSurfaceViewFocus ==
    \E s \in Listed(surface) :
        /\ surface' = onSurfaceViewFocus(surface, s)
        /\ call' = TargetCall("onSurfaceViewFocus", s, getSurface(surface) # NullSurface)
        /\ UNCHANGED <<data, flag, ret, walk, heap, docs, tx, event, snapshot>>

SetSurface ==
    \E s \in Listed(surface) :
        /\ surface' = setSurface(surface, s)
        /\ call' = TargetCall("setSurface", s, getSurface(surface) # NullSurface)
        /\ UNCHANGED <<data, flag, ret, walk, heap, docs, tx, event, snapshot>>

GetSurface ==
    /\ ret' = getSurface(surface)
    /\ call' = TargetCall("getSurface", NullSurface, getSurface(surface) # NullSurface)
    /\ UNCHANGED <<data, flag, walk, heap, docs, tx, event, snapshot, surface>>

Destroy ==
    /\ surface' = destroy(surface)
    /\ call' = TargetCall("destroy", NullSurface, getSurface(surface) # NullSurface)
    /\ UNCHANGED <<data, flag, ret, walk, heap, docs, tx, event, snapshot>>

TargetNext ==
    \/ AddSurface
    \/ ClearSurfaces
    \/ OnSurfaceViewFocus
    \/ SetSurface
    \/ GetSurface
    \/ Destroy

SpecTarget == TargetInit /\ [][TargetNext]_vars

(***************************************************************************)
(* ve.ui.PositionedTargetToolbar.  The toolbar holds the flag floating,    *)
(* the recorded height (undefined until it is first written), whether the  *)
(* element offsets have been calculated (elementOffset is null before),    *)
(* the class ve-ui-toolbar-floating of its element, whether it listens to  *)
(* the toolbar dialogs, the callbacks waiting for their 250 ms, and the    *)
(* number of 'resize' events emitted; last is the call that ran last and   *)
(* thrown whether it ended with an exception.                              *)
(***************************************************************************)
Height(value) == [defined |-> TRUE, value |-> value]
UndefinedHeight == [defined |-> FALSE, value |-> 0]

\* this.$element.height()
ElementHeights == {30, 40}

\* this.emit( 'resize' )
emitResize(toolbar) == [toolbar EXCEPT !.resizes = @ + 1]

\* this.elementOffset = this.$element.offset(); ...
calculateOffset(toolbar) == [toolbar EXCEPT !.elementOffset = TRUE]

\* ve.ui.PositionedTargetToolbar.prototype.float, the element being h high:
\* this.elementOffset.left is a TypeError while elementOffset is null
float(toolbar, h) ==
    IF toolbar.floating THEN toolbar
    ELSE IF ~toolbar.elementOffset
    THEN [toolbar EXCEPT !.height = Height(h), !.floatingClass = TRUE, !.thrown = TRUE]
    ELSE emitResize([toolbar EXCEPT !.height = Height(h), !.floatingClass = TRUE,
                                    !.floating = TRUE])

\* ve.ui.PositionedTargetToolbar.prototype.unfloat
unfloat(toolbar) ==
    IF toolbar.floating
    THEN emitResize([toolbar EXCEPT !.height = Height(0), !.floatingClass = FALSE,
                                    !.floating = FALSE])
    ELSE toolbar

\* ve.ui.PositionedTargetToolbar.prototype.isFloating
isFloating(toolbar) == toolbar.floating

\* ve.ui.PositionedTargetToolbar.prototype.detach
detach(toolbar) == [unfloat(toolbar) EXCEPT !.connected = FALSE]

recalculateHeight_Always(toolbar, h) == float(unfloat(toolbar), h)

\* the callback given to setTimeout: if ( toolbar.floating ) { toolbar.unfloat();
\* toolbar.float(); }
recalculateHeight(toolbar, h) ==
    IF toolbar.floating THEN float(unfloat(toolbar), h) ELSE toolbar

\* the call starts: no exception yet
called(toolbar, name) == [toolbar EXCEPT !.last = name, !.thrown = FALSE]

ToolbarInit ==
    /\ data = <<>>
    /\ call = NoCall
    /\ flag = F
    /\ ret = 0
    /\ walk = IdleWalk
    /\ heap = <<>>
    /\ docs = <<>>
    /\ tx = <<>>
    /\ event = <<>>
    /\ snapshot = <<>>
    /\ surface = [floating |-> FALSE, height |-> UndefinedHeight, elementOffset |-> FALSE,
                  floatingClass |-> FALSE, connected |-> FALSE, timers |-> 0,
                  resizes |-> 0, last |-> "constructor", thrown |-> FALSE]

\* setup: the toolbar listens to the dialogs opening and closing
Setup ==
    /\ surface' = [called(surface, "setup") EXCEPT !.connected = TRUE]
    /\ UNCHANGED <<data, call, flag, ret, walk, heap, docs, tx, event, snapshot>>

Float ==
    \E h \in ElementHeights :
        /\ float(surface, h).resizes <= MaxResizes
        /\ surface' = float(called(surface, "float"), h)
        /\ UNCHANGED <<data, call, flag, ret, walk, heap, docs, tx, event, snapshot>>

Unfloat ==
    /\ unfloat(surface).resizes <= MaxResizes
    /\ surface' = unfloat(called(surface, "unfloat"))
    /\ UNCHANGED <<data, call, flag, ret, walk, heap, docs, tx, event, snapshot>>

\* onWindowResize and getElementOffset calculate the offsets
OnWindowResize ==
    /\ surface' = calculateOffset(called(surface, "onWindowResize"))
    /\ UNCHANGED <<data, call, flag, ret, walk, heap, docs, tx, event, snapshot>>

Detach ==
    /\ detach(surface).resizes <= MaxResizes
    /\ surface' = detach(called(surface, "detach"))
    /\ UNCHANGED <<data, call, flag, ret, walk, heap, docs, tx, event, snapshot>>

\* a dialog has opened or closed: the callback is given to setTimeout
OnToolbarDialogsOpeningOrClosing ==
    /\ surface.connected
    /\ surface.timers < MaxToolbarTimers
    /\ surface' = [called(surface, "onToolbarDialogsOpeningOrClosing") EXCEPT
                      !.timers = @ + 1]
    /\ UNCHANGED <<data, call, flag, ret, walk, heap, docs, tx, event, snapshot>>

\* 250 ms later the callback runs
ToolbarTimeout ==
    \E h \in ElementHeights :
        /\ surface.timers > 0
        /\ recalculateHeight(surface, h).resizes <= MaxResizes
        /\ surface' = [recalculateHeight(called(surface, "timeout"), h) EXCEPT
                          !.timers = @ - 1]
        /\ UNCHANGED <<data, call, flag, ret, walk, heap, docs, tx, event, snapshot>>

ToolbarNext ==
    \/ Setup
    \/ Float
    \/ Unfloat
    \/ OnWindowResize
    \/ Detach
    \/ OnToolbarDialogsOpeningOrClosing
    \/ ToolbarTimeout

SpecToolbar == ToolbarInit /\ [][ToolbarNext]_vars

(***************************************************************************)
(* Vocabulary of the properties                                            *)
(***************************************************************************)
AllRegistered(d) == \A n \in 1..Len(d) : d[n].k = "element" => d[n].t \in Registered

\* Stack discipline: the stack of open types after scanning d, or <<"unbalanced">>
\* once a close marker does not match the innermost open element.
RECURSIVE OpenStack(_, _, _)
OpenStack(d, n, stack) ==
    IF n > Len(d) THEN stack
    ELSE IF d[n].k # "element" THEN OpenStack(d, n + 1, stack)
    ELSE IF ~d[n].close THEN OpenStack(d, n + 1, <<d[n].t>> \o stack)
    ELSE IF stack # <<>> /\ Head(stack) = d[n].t THEN OpenStack(d, n + 1, Tail(stack))
    ELSE <<"unbalanced">>

IsBalanced(d) == OpenStack(d, 1, <<>>) = <<>>

\* The offsets strictly between the opening marker at JavaScript index p and its
\* closing marker, in balanced data: p + 1 .. the index of the closing marker.
RECURSIVE MatchingClose(_, _, _)
MatchingClose(d, q, depth) ==
    IF q >= Len(d) THEN Len(d)
    ELSE IF isOpenElementData(d, q) THEN MatchingClose(d, q + 1, depth + 1)
    ELSE IF isCloseElementData(d, q)
         THEN (IF depth = 0 THEN q ELSE MatchingClose(d, q + 1, depth - 1))
    ELSE MatchingClose(d, q + 1, depth)

InsideIgnoreChildren(d, offset) ==
    \E p \in 0..(Len(d) - 1) :
        /\ isOpenElementData(d, p)
        /\ getType(d, p) \in Registered
        /\ registry[getType(d, p)].ignoreChildren
        /\ p < offset
        /\ offset <= MatchingClose(d, p + 1, 0)

ValidOffsets(d, cb) == {o \in 0..Len(d) : callback(d, cb, o) = T}

(***************************************************************************)
(* Properties of the linear data queries (specification SpecLinear)        *)
(***************************************************************************)
IsGetRelativeOffset == call.op = "getRelativeOffset"
IsInterior == 0 < call.offset /\ call.offset < Len(data)
LeftItem == getData(data, call.offset - 1)
RightItem == getData(data, call.offset)
IsCharacter(item) == item.k \in {"string", "array"}
\* the item closes (close = TRUE) or opens a node of a registered content type
IsContentLeafMarker(item, close) ==
    item.k = "element" /\ item.close = close /\ item.t \in Registered /\ registry[item.t].isContent
InEmptyContentBranch ==
    /\ isEmptyPair(LeftItem, RightItem)
    /\ LeftItem.t \in Registered
    /\ registry[LeftItem.t].canContainContent

\* The start of the call is outside every ignore-children node of non-empty,
\* balanced data.
WalkPrecondition ==
    /\ data # <<>>
    /\ IsBalanced(data)
    /\ ~InsideIgnoreChildren(data, call.offset)

C7_AsStated ==
    call.op = "isContentOffset" /\ IsInterior /\ flag # Throw =>
        (flag = T <=>
            \/ IsCharacter(LeftItem) \/ IsCharacter(RightItem)
            \/ IsContentLeafMarker(LeftItem, TRUE) # IsContentLeafMarker(RightItem, FALSE)
            \/ InEmptyContentBranch)

\* C7 amended: at an interior offset isContentOffset is true iff (a) a character
\* is on either side, or (b) at least one side is a content-leaf boundary (the left
\* item closes a content node or the right item opens one), or (c) the offset is
\* inside an empty content-capable branch.
C7_ContentOffsetRule ==
    call.op = "isContentOffset" /\ IsInterior /\ flag # Throw =>
        (flag = T <=>
            \/ IsCharacter(LeftItem) \/ IsCharacter(RightItem)
            \/ IsContentLeafMarker(LeftItem, TRUE) \/ IsContentLeafMarker(RightItem, FALSE)
            \/ InEmptyContentBranch)

\* C7 witness: the offset between the close of one content leaf and the open of
\* the next one is a content offset.
C7_Witness ==
    /\ call.op = "isContentOffset" /\ IsInterior
    /\ IsContentLeafMarker(LeftItem, TRUE) /\ IsContentLeafMarker(RightItem, FALSE)
    /\ flag = T

\* C8: at offset 0 and at offset length isContentOffset is false and
\* isStructuralOffset is true, in restricted and in unrestricted mode, whatever
\* the data.
C8_Edges ==
    call.offset \in {0, Len(data)} =>
        /\ call.op = "isContentOffset" => flag = F
        /\ call.op = "isStructuralOffset" => flag = T

\* C8 witness: an unrestricted isStructuralOffset at the right edge of data that
\* ends with a character.
C8_Witness ==
    /\ call.op = "isStructuralOffset" /\ call.cb.unrestricted
    /\ Len(data) > 0 /\ call.offset = Len(data)
    /\ IsCharacter(LeftItem)
    /\ flag = T

\* C9: isStructuralOffset(offset, true) implies isStructuralOffset(offset, false),
\* and at an interior offset next to a character isStructuralOffset is false in
\* both modes.
C9_UnrestrictedNarrows ==
    call.op = "isStructuralOffset" =>
        /\ call.cb.unrestricted /\ flag = T => isStructuralOffset(data, call.offset, FALSE) = T
        /\ IsInterior /\ (IsCharacter(LeftItem) \/ IsCharacter(RightItem)) => flag = F

\* C9 witness: an interior offset that is structural in restricted mode only.
C9_Witness ==
    /\ call.op = "isStructuralOffset" /\ call.cb.unrestricted /\ IsInterior
    /\ flag = F
    /\ isStructuralOffset(data, call.offset, FALSE) = T

\* C10: from a start outside every ignore-children node, getRelativeOffset never
\* returns an offset strictly between the markers of an ignore-children node.
C10_NeverInsideIgnoredChildren ==
    IsGetRelativeOffset /\ AllRegistered(data) /\ IsBalanced(data)
        /\ ~InsideIgnoreChildren(data, call.offset) /\ ret >= 0
        => ~InsideIgnoreChildren(data, ret)

\* C10 witness: the walk passed over an offset that satisfies the predicate inside
\* an ignore-children node nested in another one, and returned an offset beyond it.
C10_Witness ==
    /\ IsGetRelativeOffset /\ AllRegistered(data) /\ IsBalanced(data)
    /\ ~InsideIgnoreChildren(data, call.offset) /\ ret >= 0
    /\ \E o \in 0..Len(data) :
          /\ (call.offset < o /\ o < ret) \/ (ret < o /\ o < call.offset)
          /\ InsideIgnoreChildren(data, o) /\ InsideIgnoreChildren(data, o - 1)
          /\ callback(data, call.cb, o) = T

(***************************************************************************)
(* The node tree of a document.  A tree is the sequence of its nodes in    *)
(* document order (preorder), each [type, depth, length]: the document     *)
(* node comes first, at depth 0; length is the outer length (the markers   *)
(* included; a text node's length is its number of characters).            *)
(***************************************************************************)
Node(type, depth, length) == [type |-> type, depth |-> depth, length |-> length]

StructuralError == [ok |-> FALSE, nodes |-> <<>>]

\* the mutant of streamEndsClosed: an element still open at the end is accepted
streamEndsClosed_Always(stack) == TRUE

\* at the end of the data only the document node is on the stack
streamEndsClosed(stack) == Len(stack) = 1

\* The forward scan; s holds the stack of open nodes (innermost first, each with
\* the position of its opening marker), the nodes made so far and whether the
\* last node is a text node still being extended.
RECURSIVE buildNodeTreeScan(_, _, _)
buildNodeTreeScan(d, n, s) ==
    IF n > Len(d)
    THEN IF streamEndsClosed(s.stack)
         THEN [ok |-> TRUE, nodes |-> [s.nodes EXCEPT ![1].length = Len(d)]]
         ELSE StructuralError
    ELSE
    LET item == d[n]
        top == Head(s.stack)
        depth == Len(s.stack)
    IN  IF item.k # "element"
        THEN IF s.inText
             THEN buildNodeTreeScan(d, n + 1,
                    [s EXCEPT !.nodes[Len(s.nodes)].length = @ + 1])
             ELSE buildNodeTreeScan(d, n + 1,
                    [s EXCEPT !.nodes = Append(@, Node("text", depth, 1)),
                              !.inText = TRUE])
        ELSE IF ~item.close
        THEN buildNodeTreeScan(d, n + 1,
                    [stack |-> <<[node |-> Len(s.nodes) + 1, start |-> n]>> \o s.stack,
                     nodes |-> Append(s.nodes, Node(item.t, depth, 0)),
                     inText |-> FALSE])
        ELSE IF Len(s.stack) > 1 /\ s.nodes[top.node].type = item.t
        THEN buildNodeTreeScan(d, n + 1,
                    [stack |-> Tail(s.stack),
                     nodes |-> [s.nodes EXCEPT ![top.node].length = n - top.start + 1],
                     inText |-> FALSE])
        ELSE StructuralError

buildNodeTree(d) ==
    buildNodeTreeScan(d, 1,
        [stack |-> <<[node |-> 1, start |-> 0]>>,
         nodes |-> <<Node("document", 0, 0)>>,
         inText |-> FALSE])

\* the last node of the subtree of node i
SubtreeEnd(tree, i) ==
    CHOOSE j \in i..Len(tree) :
        /\ \A k \in (i + 1)..j : tree[k].depth > tree[i].depth
        /\ j = Len(tree) \/ tree[j + 1].depth <= tree[i].depth

\* node.getChildren(): the positions of the children of node p
Children(tree, p) ==
    {i \in (p + 1)..SubtreeEnd(tree, p) : tree[i].depth = tree[p].depth + 1}

\* the child of p with JavaScript index c
ChildAt(tree, p, c) ==
    CHOOSE i \in Children(tree, p) :
        Cardinality({j \in Children(tree, p) : j < i}) = c

IsBranch(tree, p) == tree[p].type # "text"

IsAncestorOrSelf(tree, k, p) == k <= p /\ p <= SubtreeEnd(tree, k)

RECURSIVE SumLengths(_, _)
SumLengths(tree, S) ==
    IF S = {} THEN 0
    ELSE LET i == CHOOSE x \in S : TRUE
         IN  tree[i].length + SumLengths(tree, S \ {i})

\* the children of p with JavaScript indexes index .. index + numNodes - 1
ChildRun(tree, p, index, numNodes) ==
    {ChildAt(tree, p, c) : c \in index..(index + numNodes - 1)}

\* the mutant of lengthAfterSplice: the ancestors keep their old length
lengthAfterSplice_Unadjusted(length, diff) == length

\* node.adjustLength( diff ), on the parent and on each of its ancestors
lengthAfterSplice(length, diff) == length + diff

\* rebuildNodes( parent, index, numNodes, offset, newLength ) over the data d:
\* the numNodes children of parent from index on are replaced by the nodes built
\* from the data span [offset, offset + newLength).
rebuildNodes(tree, parent, index, numNodes, d, offset, newLength) ==
    LET count == Cardinality(Children(tree, parent))
        removed == ChildRun(tree, parent, index, numNodes)
        first == IF index < count THEN ChildAt(tree, parent, index)
                 ELSE SubtreeEnd(tree, parent) + 1
        last == IF numNodes > 0
                THEN SubtreeEnd(tree, ChildAt(tree, parent, index + numNodes - 1))
                ELSE first - 1
        fragment == buildNodeTree(SubSeq(d, offset + 1, offset + newLength))
        addedNodes == [k \in 1..(Len(fragment.nodes) - 1) |->
                        [fragment.nodes[k + 1] EXCEPT !.depth = @ + tree[parent].depth]]
        diff == newLength - SumLengths(tree, removed)
        spliced == SubSeq(tree, 1, first - 1) \o addedNodes \o SubSeq(tree, last + 1, Len(tree))
    IN  IF ~fragment.ok THEN StructuralError
        ELSE [ok |-> TRUE,
              nodes |-> [k \in 1..Len(spliced) |->
                          IF k <= parent /\ IsAncestorOrSelf(tree, k, parent)
                          THEN [spliced[k] EXCEPT !.length = lengthAfterSplice(@, diff)]
                          ELSE spliced[k]]]

\* the offset of the first item of node i (of its opening marker, for an element)
RECURSIVE NodeStart(_, _)
NodeStart(tree, i) ==
    IF i = 1 THEN 0
    ELSE LET before == {j \in 2..(i - 1) :
                          /\ tree[j].depth = tree[i].depth
                          /\ SubtreeEnd(tree, j) = i - 1}
         IN  IF before # {}
             THEN LET j == CHOOSE x \in before : TRUE
                  IN  NodeStart(tree, j) + tree[j].length
             ELSE NodeStart(tree, i - 1) + (IF i - 1 = 1 THEN 0 ELSE 1)

\* node.getRange(): the offsets inside the node's markers
InnerStart(tree, i) == NodeStart(tree, i) + (IF i = 1 \/ ~IsBranch(tree, i) THEN 0 ELSE 1)
InnerEnd(tree, i) ==
    NodeStart(tree, i) + tree[i].length - (IF i = 1 \/ ~IsBranch(tree, i) THEN 0 ELSE 1)

(***************************************************************************)
(* Transactions.  An operation is a retain of some length or a replace     *)
(* that removes the items `remove' and puts the items `insert' in place.   *)
(***************************************************************************)
Retain(length) == [type |-> "retain", length |-> length, remove |-> <<>>, insert |-> <<>>]
Replace(remove, insert) == [type |-> "replace", length |-> 0, remove |-> remove, insert |-> insert]

\* the builder's virtual cursor, an offset of the document the builder reads
RECURSIVE Cursor(_)
Cursor(ops) ==
    IF ops = <<>> THEN 0
    ELSE LET op == ops[Len(ops)]
         IN  Cursor(SubSeq(ops, 1, Len(ops) - 1))
             + (IF op.type = "retain" THEN op.length ELSE Len(op.remove))

\* pushRetain( length ): merges with an immediately preceding retain
pushRetain(ops, length) ==
    IF ops # <<>> /\ ops[Len(ops)].type = "retain"
    THEN [ops EXCEPT ![Len(ops)].length = @ + length]
    ELSE Append(ops, Retain(length))

\* pushReplace( document, offset, removeLength, insertData ): captures the
\* removeLength items now at offset
pushReplace(ops, d, offset, removeLength, insertData) ==
    Append(ops, Replace(SubSeq(d, offset + 1, offset + removeLength), insertData))

\* the mutant of invertOperation: the payloads are not swapped
invertOperation_Unswapped(op) == op

invertOperation(op) ==
    IF op.type = "replace" THEN Replace(op.insert, op.remove) ELSE op

\* invert(): each operation's insert and remove payloads swapped
invert(ops) == [k \in 1..Len(ops) |-> invertOperation(ops[k])]

InvalidOperation == [ok |-> FALSE, data |-> <<>>]

\* One pass over the operations against the data d, from the data offset
\* cursor on: a retain must stay inside the data and a replace must find its
\* remove payload at the cursor.
RECURSIVE applyOperations(_, _, _)
applyOperations(d, ops, cursor) ==
    IF ops = <<>> THEN [ok |-> TRUE, data |-> d]
    ELSE LET op == Head(ops)
         IN  IF op.type = "retain"
             THEN IF cursor + op.length > Len(d) THEN InvalidOperation
                  ELSE applyOperations(d, Tail(ops), cursor + op.length)
             ELSE IF \/ cursor + Len(op.remove) > Len(d)
                     \/ SubSeq(d, cursor + 1, cursor + Len(op.remove)) # op.remove
                  THEN InvalidOperation
                  ELSE applyOperations(
                         SubSeq(d, 1, cursor) \o op.insert
                            \o SubSeq(d, cursor + Len(op.remove) + 1, Len(d)),
                         Tail(ops), cursor + Len(op.insert))

ReplaceOps(ops) == {k \in 1..Len(ops) : ops[k].type = "replace"}

\* the span of the data, before the edit, that the replace operations cover
EditStart(ops) ==
    LET k == CHOOSE x \in ReplaceOps(ops) : \A y \in ReplaceOps(ops) : x <= y
    IN  Cursor(SubSeq(ops, 1, k - 1))
EditEnd(ops) ==
    LET k == CHOOSE x \in ReplaceOps(ops) : \A y \in ReplaceOps(ops) : x >= y
    IN  Cursor(SubSeq(ops, 1, k))

\* The rebuild a commit triggers: the parent is the innermost branch whose
\* range holds the edited span and whose new content is balanced; the children
\* rebuilt are those the edited span touches.
rebuildAffected(tree, ops, newData) ==
    LET a == EditStart(ops)
        b == EditEnd(ops)
        delta == Len(newData) - tree[1].length
        holds(p) == /\ IsBranch(tree, p)
                    /\ InnerStart(tree, p) <= a
                    /\ b <= InnerEnd(tree, p)
                    /\ IsBalanced(SubSeq(newData, InnerStart(tree, p) + 1,
                                         InnerEnd(tree, p) + delta))
        scopes == {p \in 1..Len(tree) : holds(p)}
        parent == CHOOSE p \in scopes : \A q \in scopes : q <= p
        kids == Children(tree, parent)
        touched == {c \in kids : /\ NodeStart(tree, c) <= b
                                 /\ NodeStart(tree, c) + tree[c].length >= a}
        firstTouched == CHOOSE c \in touched : \A e \in touched : c <= e
    IN  IF scopes = {} THEN StructuralError
        ELSE IF touched = {}
        THEN rebuildNodes(tree, parent, 0, 0, newData, InnerStart(tree, parent),
                          InnerEnd(tree, parent) - InnerStart(tree, parent) + delta)
        ELSE rebuildNodes(tree, parent,
                          Cardinality({c \in kids : c < firstTouched}),
                          Cardinality(touched), newData,
                          NodeStart(tree, firstTouched),
                          SumLengths(tree, touched) + delta)

\* the mutant of hasBeenApplied: the transaction never counts as applied
hasBeenApplied_Never(t) == FALSE

hasBeenApplied(t) == t.applied

\* store.index( value ): the index of an equal stored value, else a new one
storeIndex(store, value) ==
    IF \E k \in 1..Len(store) : store[k] = value THEN store ELSE Append(store, value)

\* the outer span of the internal list in the data d, empty when d has none
InternalListStart(d) ==
    IF \E k \in 1..Len(d) : d[k] = Open("internalList")
    THEN (CHOOSE k \in 1..Len(d) :
            /\ d[k] = Open("internalList")
            /\ \A j \in 1..(k - 1) : d[j] # Open("internalList")) - 1
    ELSE Len(d)
InternalListEnd(d) ==
    IF InternalListStart(d) = Len(d) THEN Len(d)
    ELSE MatchingClose(d, InternalListStart(d) + 1, 0) + 1

\* the data of cloneFromRange( range ): the whole data without a range, else
\* the slice, followed by the internal list unless the range holds all of it
cloneFromRange(d, range) ==
    IF ~range.defined THEN d
    ELSE SubSeq(d, range.start + 1, range.end)
         \o (IF range.start > InternalListStart(d) \/ range.end < InternalListEnd(d)
             THEN SubSeq(d, InternalListStart(d) + 1, InternalListEnd(d))
             ELSE <<>>)

\* the mutant of clonedStore: the clone keeps the source's store object
clonedStore_Shared(h, source) == source.store

\* store.clone(): a new object, allocated after the clone's data array
clonedStore(h, source) == Len(h) + 2

(***************************************************************************)
(* Documents.  heap maps an object reference to an array's contents; a     *)
(* document holds the references of its data array and of its store, and   *)
(* its node tree once built.                                               *)
(***************************************************************************)
StoredValues == {"bold", "italic"}
DocItems ==
    {Char("a"), Open("paragraph"), Close("paragraph"),
     Open("inlineImage"), Close("inlineImage")}
RawDocuments == UNION {[1..n -> DocItems] : n \in 0..MaxDocRawLen}
ExampleDocuments ==
    {<<Open("paragraph"), AnnChar("a", <<0>>), Char("a"), Close("paragraph")>>,
     <<Open("list"), Open("listItem"), Open("paragraph"), Close("paragraph"),
       Close("listItem"), Close("list")>>,
     <<Char("a"), Char("a"), Char("a"), Char("a")>>,
     <<Close("paragraph"), Open("paragraph")>>,
     <<Open("paragraph"), Open("inlineImage"), Close("paragraph")>>}
\* the documents that are cloned; the first has an internal list
CloneDocuments ==
    {<<Open("paragraph"), Char("a"), Close("paragraph"),
       Open("internalList"), Open("internalItem"), Close("internalItem"),
       Close("internalList")>>,
     <<Open("paragraph"), AnnChar("a", <<0>>), Close("paragraph")>>,
     <<Char("a"), Char("a")>>}
\* what a replace may insert
Insertions ==
    {<<>>, <<Char("a")>>, <<Open("paragraph"), Close("paragraph")>>,
     <<Close("paragraph"), Open("paragraph")>>}

NoTransaction == [operations |-> <<>>, applied |-> FALSE, doc |-> 0, inverse |-> FALSE]
Event(op, doc, error) == [op |-> op, doc |-> doc, error |-> error, range |-> NoRange]

DocInit ==
    /\ \E d \in RawDocuments \cup ExampleDocuments : heap = <<d, <<"bold">>>>
    /\ docs = <<[data |-> 1, store |-> 2, tree |-> <<>>, built |-> FALSE]>>
    /\ tx = NoTransaction
    /\ event = Event("new", 1, "none")
    /\ snapshot = [data |-> <<>>, store |-> <<>>, clean |-> FALSE]
    /\ data = <<>>
    /\ call = NoCall
    /\ flag = F
    /\ ret = 0
    /\ walk = IdleWalk
    /\ surface = NoSurface

\* a transaction is being built
Building == tx.doc # 0 /\ ~tx.applied /\ ~tx.inverse

\* document.buildNodeTree()
BuildNodeTree(id) ==
    /\ ~docs[id].built
    /\ LET built == buildNodeTree(heap[docs[id].data])
       IN  IF built.ok
           THEN /\ docs' = [docs EXCEPT ![id].tree = built.nodes, ![id].built = TRUE]
                /\ event' = Event("buildNodeTree", id, "none")
           ELSE /\ docs' = docs
                /\ event' = Event("buildNodeTree", id, "StructuralError")
    /\ UNCHANGED <<heap, tx, snapshot, linVars, surface>>

\* document.rebuildNodes( parent, index, numNodes, offset, newLength ) over
\* data that has not changed: the span is the one the children cover
RebuildNodes(id, parent, index, numNodes) ==
    /\ docs[id].built
    /\ ~Building
    /\ parent \in 1..Len(docs[id].tree)
    /\ IsBranch(docs[id].tree, parent)
    /\ index + numNodes <= Cardinality(Children(docs[id].tree, parent))
    /\ LET tree == docs[id].tree
           run == ChildRun(tree, parent, index, numNodes)
           offset == IF index < Cardinality(Children(tree, parent))
                     THEN NodeStart(tree, ChildAt(tree, parent, index))
                     ELSE InnerEnd(tree, parent)
           rebuilt == rebuildNodes(tree, parent, index, numNodes,
                                   heap[docs[id].data], offset, SumLengths(tree, run))
       IN  IF rebuilt.ok
           THEN /\ docs' = [docs EXCEPT ![id].tree = rebuilt.nodes]
                /\ event' = Event("rebuildNodes", id, "none")
           ELSE /\ docs' = docs
                /\ event' = Event("rebuildNodes", id, "StructuralError")
    /\ UNCHANGED <<heap, tx, snapshot, linVars, surface>>

\* new ve.dm.TransactionBuilder(), for an edit of document id; a behaviour
\* follows one transaction from its builder to its commits
NewTransaction(id) ==
    /\ docs[id].built
    /\ tx = NoTransaction
    /\ tx' = [NoTransaction EXCEPT !.doc = id]
    /\ event' = Event("newTransaction", id, "none")
    /\ UNCHANGED <<heap, docs, snapshot, linVars, surface>>

\* txBuilder.pushRetain( length )
PushRetain(length) ==
    /\ Building
    /\ Len(pushRetain(tx.operations, length)) <= MaxOps
    /\ Cursor(tx.operations) + length <= Len(heap[docs[tx.doc].data])
    /\ tx' = [tx EXCEPT !.operations = pushRetain(@, length)]
    /\ event' = Event("pushRetain", tx.doc, "none")
    /\ UNCHANGED <<heap, docs, snapshot, linVars, surface>>

\* txBuilder.pushReplace( document, offset, removeLength, insertData ) at the
\* builder's cursor; the edit leaves the document balanced, and a transaction
\* holds one replace, as the insertion, removal and replacement constructors
\* build it
PushReplace(removeLength, insertData) ==
    /\ Building
    /\ Len(tx.operations) < MaxOps
    /\ ReplaceOps(tx.operations) = {}
    /\ removeLength + Len(insertData) > 0
    /\ LET d == heap[docs[tx.doc].data]
           ops == pushReplace(tx.operations, d, Cursor(tx.operations),
                              removeLength, insertData)
           result == applyOperations(d, ops, 0)
       IN  /\ Cursor(tx.operations) + removeLength <= Len(d)
           /\ result.ok
           /\ IsBalanced(result.data)
           /\ Len(result.data) <= MaxDocLen
           /\ tx' = [tx EXCEPT !.operations = ops]
    /\ event' = Event("pushReplace", tx.doc, "none")
    /\ UNCHANGED <<heap, docs, snapshot, linVars, surface>>

\* document.commit( transaction )
Commit ==
    /\ tx.doc # 0
    /\ tx.operations # <<>>
    /\ LET id == tx.doc
           d == heap[docs[id].data]
           result == applyOperations(d, tx.operations, 0)
           rebuilt == IF ReplaceOps(tx.operations) = {}
                      THEN [ok |-> TRUE, nodes |-> docs[id].tree]
                      ELSE rebuildAffected(docs[id].tree, tx.operations, result.data)
       IN  IF hasBeenApplied(tx) \/ ~result.ok
           THEN /\ event' = Event("commit", id, "InvalidOperationError")
                /\ UNCHANGED <<heap, docs, tx, snapshot, surface>>
           ELSE /\ heap' = [heap EXCEPT ![docs[id].data] = result.data]
                /\ docs' = IF rebuilt.ok
                           THEN [docs EXCEPT ![id].tree = rebuilt.nodes]
                           ELSE [docs EXCEPT ![id].tree = <<>>, ![id].built = FALSE]
                /\ tx' = [tx EXCEPT !.applied = TRUE]
                /\ event' = Event("commit", id,
                                  IF rebuilt.ok THEN "none" ELSE "StructuralError")
                /\ snapshot' = IF tx.inverse THEN snapshot
                               ELSE [data |-> d, store |-> heap[docs[id].store],
                                     clean |-> TRUE]
    /\ UNCHANGED <<linVars, surface>>

\* transaction.invert(), of the transaction just committed
Invert ==
    /\ tx.doc # 0
    /\ tx.applied
    /\ ~tx.inverse
    /\ tx' = [tx EXCEPT !.operations = invert(@), !.applied = FALSE, !.inverse = TRUE]
    /\ event' = Event("invert", tx.doc, "none")
    /\ UNCHANGED <<heap, docs, snapshot, linVars, surface>>

\* document.getStore().index( value )
Index(id, value) ==
    /\ ~Building
    /\ heap' = [heap EXCEPT ![docs[id].store] = storeIndex(@, value)]
    /\ snapshot' = [snapshot EXCEPT !.clean = @ /\ (id # tx.doc \/ heap' = heap)]
    /\ event' = Event("index", id, "none")
    /\ UNCHANGED <<docs, tx, linVars, surface>>

\* the ranges of the nodes of a tree, inner and outer
NodeRanges(tree) ==
    {Range(InnerStart(tree, i), InnerEnd(tree, i)) : i \in 1..Len(tree)}
    \cup {Range(NodeStart(tree, i), NodeStart(tree, i) + tree[i].length) : i \in 1..Len(tree)}

\* document.cloneFromRange( range ); document.clone() is the call without a range
CloneFromRange(id, range) ==
    /\ Len(docs) = 1
    /\ ~Building
    /\ docs[id].built
    /\ heap' = heap \o <<cloneFromRange(heap[docs[id].data], range), heap[docs[id].store]>>
    /\ docs' = Append(docs, [data |-> Len(heap) + 1,
                             store |-> clonedStore(heap, docs[id]),
                             tree |-> <<>>, built |-> FALSE])
    /\ event' = [Event("cloneFromRange", id, "none") EXCEPT !.range = range]
    /\ UNCHANGED <<tx, snapshot, linVars, surface>>

EditActions ==
    \/ \E id \in DOMAIN docs : BuildNodeTree(id)
    \/ \E id \in DOMAIN docs : NewTransaction(id)
    \/ \E length \in 1..MaxDocLen : PushRetain(length)
    \/ \E removeLength \in 0..MaxDocLen : \E insertData \in Insertions :
          PushReplace(removeLength, insertData)
    \/ Commit
    \/ \E id \in DOMAIN docs : \E value \in StoredValues : Index(id, value)

DocNext ==
    \/ EditActions
    \/ \E id \in DOMAIN docs : \E parent \in 1..Len(docs[id].tree) :
          \E i, n \in 0..Cardinality(Children(docs[id].tree, parent)) :
              RebuildNodes(id, parent, i, n)
    \/ Invert

SpecDocument == DocInit /\ [][DocNext]_vars

CloneInit ==
    /\ \E d \in CloneDocuments : heap = <<d, <<"bold">>>>
    /\ docs = <<[data |-> 1, store |-> 2, tree |-> <<>>, built |-> FALSE]>>
    /\ tx = NoTransaction
    /\ event = Event("new", 1, "none")
    /\ snapshot = [data |-> <<>>, store |-> <<>>, clean |-> FALSE]
    /\ data = <<>>
    /\ call = NoCall
    /\ flag = F
    /\ ret = 0
    /\ walk = IdleWalk
    /\ surface = NoSurface

CloneNext ==
    \/ EditActions
    \/ \E id \in DOMAIN docs : \E range \in NodeRanges(docs[id].tree) \cup {NoRange} :
          CloneFromRange(id, range)

SpecClone == CloneInit /\ [][CloneNext]_vars

(***************************************************************************)
(* Properties of documents and transactions                                *)
(***************************************************************************)
DataOf(id) == heap[docs[id].data]
StoreOf(id) == heap[docs[id].store]

\* Balanced data, by its grammar: empty, or a character followed by balanced
\* data, or an opening marker, balanced data, the closing marker of the same
\* type, and balanced data.
RECURSIVE WellFormed(_)
WellFormed(d) ==
    \/ d = <<>>
    \/ /\ d # <<>>
       /\ d[1].k # "element"
       /\ WellFormed(Tail(d))
    \/ /\ d # <<>>
       /\ d[1].k = "element"
       /\ ~d[1].close
       /\ \E k \in 2..Len(d) :
            /\ d[k] = Close(d[1].t)
            /\ WellFormed(SubSeq(d, 2, k - 1))
            /\ WellFormed(SubSeq(d, k + 1, Len(d)))

CommittedNow == event.op = "commit" /\ event.error = "none"

\* C1: a commit of a transaction that is already applied raises an error and
\* leaves the document's data, store and node tree as the first commit left them.
C1_DoubleCommitGuard ==
    [][tx.applied /\ event'.op = "commit" /\ event' # event =>
          /\ event'.error = "InvalidOperationError"
          /\ heap' = heap
          /\ docs' = docs]_vars

C1_Witness ==
    /\ event.op = "commit"
    /\ event.error = "InvalidOperationError"
    /\ tx.applied
    /\ \E k \in ReplaceOps(tx.operations) : tx.operations[k].insert # <<>>

\* C2: once a transaction of a balanced document and then its inverse are
\* committed, the data and the store are what they were before the transaction.
C2_InverseRestores ==
    CommittedNow /\ tx.inverse /\ tx.applied /\ snapshot.clean =>
        /\ DataOf(tx.doc) = snapshot.data
        /\ StoreOf(tx.doc) = snapshot.store

C2_Witness ==
    /\ CommittedNow /\ tx.inverse /\ tx.applied /\ snapshot.clean
    /\ \E k \in ReplaceOps(tx.operations) :
          tx.operations[k].insert # <<>> /\ tx.operations[k].remove # <<>>

\* C3: building the node tree fails with a structural error exactly when the
\* data is unbalanced, and succeeds on balanced data, characters only included.
C3_BuildFailsIffUnbalanced ==
    event.op = "buildNodeTree" =>
        /\ event.error = "StructuralError" <=> ~WellFormed(DataOf(event.doc))
        /\ event.error = "none" <=> docs[event.doc].built

C3_Witness ==
    /\ event.op = "buildNodeTree"
    /\ event.error = "StructuralError"
    /\ DataOf(event.doc) = <<Open("paragraph"), Open("inlineImage"), Close("paragraph")>>

\* C4: the node tree a document holds, after every commit's incremental rebuild
\* and after every rebuild over unchanged data, is the tree a full build of its
\* data gives.
C4_IncrementalEqualsFull ==
    \A id \in DOMAIN docs :
        docs[id].built => docs[id].tree = buildNodeTree(DataOf(id)).nodes

C4_Witness ==
    /\ CommittedNow
    /\ ~tx.inverse
    /\ \E k \in ReplaceOps(tx.operations) :
          tx.operations[k].insert = <<Close("paragraph"), Open("paragraph")>>
    /\ Len(docs[tx.doc].tree) > 3

\* the clone is document 2, taken from document 1
ClonedAs(range) ==
    LET source == DataOf(1)
        clone == DataOf(2)
        n == range.end - range.start
        rest == SubSeq(clone, n + 1, Len(clone))
    IN  IF ~range.defined THEN clone = source
        ELSE /\ Len(clone) >= n
             /\ SubSeq(clone, 1, n) = SubSeq(source, range.start + 1, range.end)
             /\ \/ rest = <<>>
                \/ /\ rest[1] = Open("internalList")
                   /\ rest[Len(rest)] = Close("internalList")
                   /\ WellFormed(rest)
                   /\ \E k \in 0..(Len(source) - Len(rest)) :
                         SubSeq(source, k + 1, k + Len(rest)) = rest

DistinctObjects ==
    /\ docs[2].data # docs[1].data
    /\ docs[2].store # docs[1].store
    /\ docs[2].data # docs[1].store
    /\ docs[2].store # docs[1].data

Mutated(id) == heap'[docs[id].data] # DataOf(id) \/ heap'[docs[id].store] # StoreOf(id)

\* C5 as stated: the clone's data and store are distinct objects deep-equal to
\* the source's at clone time, whatever the range.
C5_AsStated ==
    event.op = "cloneFromRange" =>
        /\ DistinctObjects
        /\ DataOf(2) = DataOf(1)
        /\ StoreOf(2) = StoreOf(1)

\* C5: at clone time the clone's store is a distinct object deep-equal to the
\* source's, and its data is a distinct object holding the source's data when no
\* range is given, and otherwise the items of the range followed by the
\* source's internal list or by nothing; afterwards a step that changes the
\* data or store of one of the two documents leaves the other's unchanged.
C5_CloneIsolated ==
    /\ [](event.op = "cloneFromRange" =>
            /\ DistinctObjects
            /\ StoreOf(2) = StoreOf(1)
            /\ ClonedAs(event.range))
    /\ [][Len(docs) = 2 =>
            /\ Mutated(1) => ~Mutated(2)
            /\ docs'[1].data = docs[1].data /\ docs'[1].store = docs[1].store
            /\ docs'[2].data = docs[2].data /\ docs'[2].store = docs[2].store]_vars

C5_Witness ==
    /\ Len(docs) = 2
    /\ CommittedNow
    /\ event.doc = 2
    /\ Len(DataOf(2)) < Len(DataOf(1))
    /\ StoreOf(2) # StoreOf(1)
    /\ \E k \in 1..Len(DataOf(2)) : DataOf(2)[k] = Open("internalList")

(***************************************************************************)
(* Further properties of getRelativeOffset (specification SpecLinear)      *)
(***************************************************************************)
\* the offset o lies beyond the start in the direction of the distance
Beyond(o) ==
    IF call.distance > 0 THEN o > call.offset ELSE o < call.offset

\* the offsets beyond the start that satisfy the predicate
ValidBeyond == {o \in ValidOffsets(data, call.cb) : Beyond(o)}

\* those of them that lie outside every ignore-children node
CountedBeyond == {o \in ValidBeyond : ~InsideIgnoreChildren(data, o)}

\* the farthest offset of S in the direction of the distance
Extreme(S) ==
    IF call.distance > 0 THEN CHOOSE o \in S : \A q \in S : q <= o
    ELSE CHOOSE o \in S : \A q \in S : o <= q

\* C11 as stated: when some but fewer than |distance| offsets beyond the start
\* satisfy the predicate, getRelativeOffset returns the farthest of them.
C11_AsStated ==
    IsGetRelativeOffset /\ AllRegistered(data) /\ call.distance # 0
        /\ ValidBeyond # {} /\ Cardinality(ValidBeyond) < Abs(call.distance)
        => ret = Extreme(ValidBeyond)

\* the counted offset nearest to the start
NearestCounted ==
    IF call.distance > 0 THEN CHOOSE o \in CountedBeyond : \A q \in CountedBeyond : o <= q
    ELSE CHOOSE o \in CountedBeyond : \A q \in CountedBeyond : q <= o

\* a rightward walk steps over an internalList marker, and so gives up the
\* direction, before it reaches the offset o
InternalListBefore(o) ==
    call.distance > 0 /\ \E j \in call.offset..(o - 2) : getType(data, j) = "internalList"

\* C11 amended: in balanced data, from a start outside every ignore-children
\* node, when some but fewer than |distance| of the offsets beyond the start
\* satisfy the predicate outside every ignore-children node, and a rightward
\* walk meets no internalList marker before the first of them, getRelativeOffset
\* returns the farthest of them.
C11_ReturnsExtreme ==
    IsGetRelativeOffset /\ AllRegistered(data) /\ WalkPrecondition /\ call.distance # 0
        /\ CountedBeyond # {} /\ Cardinality(CountedBeyond) < Abs(call.distance)
        /\ ~InternalListBefore(NearestCounted)
        => ret = Extreme(CountedBeyond)

\* C11 witness: two steps to the right were asked for from inside a paragraph,
\* one offset qualifies, and it is returned.
C11_Witness ==
    /\ IsGetRelativeOffset /\ AllRegistered(data) /\ WalkPrecondition
    /\ call.distance = 2 /\ IsInterior
    /\ Cardinality(CountedBeyond) = 1
    /\ ret = Extreme(CountedBeyond)
    /\ ret # call.offset

\* C12: when the start satisfies the predicate and no offset beyond it in the
\* direction of a non-zero distance does, getRelativeOffset returns the start.
C12_StaysAtStart ==
    IsGetRelativeOffset /\ AllRegistered(data) /\ call.distance # 0
        /\ callback(data, call.cb, call.offset) = T /\ ValidBeyond = {}
        => ret = call.offset

\* the start lies past every offset that satisfies the predicate, on the side
\* the distance points to
StartPastAllValid ==
    /\ ValidOffsets(data, call.cb) # {}
    /\ \/ call.distance >= 1 /\ \A o \in ValidOffsets(data, call.cb) : o < call.offset
       \/ call.distance <= -1 /\ \A o \in ValidOffsets(data, call.cb) : o > call.offset

\* the offset of S nearest to the start, S lying on one side of it
NearestTo(S) == CHOOSE o \in S : \A q \in S : Abs(o - call.offset) <= Abs(q - call.offset)

\* C14: when the start lies after the last valid offset and distance >= 1, or
\* before the first and distance <= -1, getRelativeOffset returns the nearest
\* valid offset in the opposite direction, whatever the magnitude of distance,
\* at the edges of the data too.
C14_TurnsToNearest ==
    IsGetRelativeOffset /\ AllRegistered(data) /\ StartPastAllValid
        => ret = NearestTo(ValidOffsets(data, call.cb))

ValidRight == {o \in ValidOffsets(data, call.cb) : o > call.offset}
ValidLeft == {o \in ValidOffsets(data, call.cb) : o < call.offset}
CountedRight == {o \in ValidRight : ~InsideIgnoreChildren(data, o)}
CountedLeft == {o \in ValidLeft : ~InsideIgnoreChildren(data, o)}

\* the walk to the right reaches a counted offset before it stands, right after
\* an internalList marker, on an offset that does not satisfy the predicate
ReachesRight ==
    /\ CountedRight # {}
    /\ \A j \in call.offset..(NearestTo(CountedRight) - 2) :
          getType(data, j) = "internalList" => callback(data, call.cb, j + 1) = T

Reverses == walk.pc = "loop" /\ walk'.pc = "loop" /\ walk'.s.direction # walk.s.direction

\* after this step the walk restarts next to the original start, in the new
\* direction, for a single valid offset
RestartsFromStart ==
    /\ walk'.s.i = call.offset + walk'.s.direction
    /\ walk'.s.distance = 1
    /\ walk'.s.steps = 0

\* the loop ends within two passes over the data, and reverses at most once
BoundedWalk ==
    /\ walk'.iterations <= 2 * (Len(data) + 1)
    /\ walk'.turns <= 1

IsGetNearestContentOffset == call.op = "getNearestContentOffset"
IsGetNearestStructuralOffset == call.op = "getNearestStructuralOffset"
IsGetNearest == IsGetNearestContentOffset \/ IsGetNearestStructuralOffset

\* the call was made on an offset that does not satisfy its predicate
OnInvalidOffset == callback(data, call.cb, call.offset) = F

\* the results of the search for one valid offset to the left and to the right
LeftResult == getRelativeOffset(data, call.offset, -1, call.cb)
RightResult == getRelativeOffset(data, call.offset, 1, call.cb)

\* r is, of the two results, one at the shortest distance from the offset
IsCloserResult(r) ==
    /\ r \in {LeftResult, RightResult}
    /\ \A q \in {LeftResult, RightResult} : Abs(r - call.offset) <= Abs(q - call.offset)

\* C16: getNearestContentOffset on an offset that is not a content offset, with
\* direction 0 or with no direction, searches to the left and to the right and
\* returns the result at the shorter distance from the offset, as
\* getNearestStructuralOffset does for a falsy direction.
C16_BothSides ==
    (/\ IsGetNearest
     /\ isFalsy(call.direction)
     /\ OnInvalidOffset
     /\ LeftResult # Thrown /\ RightResult # Thrown) => IsCloserResult(ret)

\* the valid offsets on the two sides are equally far from the offset
EquallyFar(L, R) ==
    /\ L # {} /\ R # {}
    /\ call.offset - NearestTo(L) = NearestTo(R) - call.offset

\* C17 as stated: without a direction, on an invalid offset whose nearest valid
\* offsets to the left and to the right are equally far away, both functions
\* return the right one.
C17_AsStated ==
    (/\ IsGetNearest
     /\ ~call.direction.given
     /\ OnInvalidOffset
     /\ EquallyFar(ValidLeft, ValidRight)) => ret = NearestTo(ValidRight)

\* the case of C17 as the code has it: the data is balanced, the offset lies
\* outside every ignore-children node, and the valid offsets compared are those
\* the search counts
TieBetweenCounted ==
    /\ IsGetNearest
    /\ ~call.direction.given
    /\ OnInvalidOffset
    /\ IsBalanced(data)
    /\ ~InsideIgnoreChildren(data, call.offset)
    /\ ReachesRight
    /\ EquallyFar(CountedLeft, CountedRight)

\* C17: without a direction, on an invalid offset of balanced data outside every
\* ignore-children node, when the nearest counted valid offsets on the two sides
\* are equally far away and the search to the right reaches its one, both
\* functions return the right one.
C17_TieGoesRight == TieBetweenCounted => ret = NearestTo(CountedRight)

C17_Witness ==
    /\ TieBetweenCounted
    /\ IsGetNearestContentOffset
    /\ ret = NearestTo(CountedRight)
    /\ ret > call.offset
    /\ NearestTo(CountedLeft) < call.offset

(***************************************************************************)
(* Properties of the annotation calls (specification SpecAnnotations)      *)
(***************************************************************************)
IsGetAnnotationsFromRange == call.op = "getAnnotationsFromRange"

\* the item at index i lies between the markers of an ignore-children node
ItemInsideIgnoreChildren(d, i) ==
    \E p \in 0..(Len(d) - 1) :
        /\ isOpenElementData(d, p)
        /\ shouldIgnoreChildren(getType(d, p)) = T
        /\ p < i
        /\ i < MatchingClose(d, p + 1, 0)

\* the item at index i is a character or a marker of a content node
IsContentItem(d, i) ==
    isElementData(d, i) => isNodeContent(getType(d, i)) = T

\* the content positions of the range of the call
ContentPositions ==
    {i \in call.start..(call.end - 1) :
        IsContentItem(data, i) /\ ~ItemInsideIgnoreChildren(data, i)}

\* the annotations at a content position: those of the item, and for the closing
\* marker of a content node those of its opening marker
AnnotationsAt(d, i) ==
    IF isCloseElementData(d, i) THEN IndexSet(annotationsOfItem(getData(d, i - 1)))
    ELSE IndexSet(annotationsOfItem(getData(d, i)))

\* the annotations present at every position of P; none if P is empty
CommonAnnotations(P) ==
    {a \in UNION {AnnotationsAt(data, i) : i \in P} :
        \A i \in P : a \in AnnotationsAt(data, i)}

\* C18: getAnnotationsFromRange(range, false) returns exactly the annotations
\* present at every content position of the range, the positions of non-content
\* elements and those inside ignore-children nodes skipped; so it returns the
\* empty set when one such position carries no annotation.
C18_CommonAnnotations ==
    (/\ IsGetAnnotationsFromRange
     /\ ~call.all
     /\ IsBalanced(data) /\ AllRegistered(data)) =>
        IndexSet(ret) = CommonAnnotations(ContentPositions)

IsSetAnnotationIndexesAtOffset == call.op = "setAnnotationIndexesAtOffset"

\* the item at the offset of the call before and after it
ItemBefore == getData(snapshot, call.offset)
ItemAfter == getData(data, call.offset)

\* the item has no annotation field: a bare character, or an element without
\* annotations
HasNoAnnotationField(item) == item.k \in {"string", "element"} /\ item.ann = <<>>

\* C19: setAnnotationIndexesAtOffset(offset, indexes) with an empty list leaves
\* no annotation field at the offset (an annotated character becomes the bare
\* character, an element has no annotations); with a non-empty list
\* getAnnotationIndexesFromOffset(offset, true) then returns the list; the
\* character or the element type at the offset, and every other item, are
\* unchanged.
C19_SetAnnotationIndexes ==
    IsSetAnnotationIndexesAtOffset =>
        /\ call.indexes = <<>> => HasNoAnnotationField(ItemAfter)
        /\ call.indexes # <<>> =>
                getAnnotationIndexesFromOffset(data, call.offset, TRUE) = call.indexes
        /\ ItemAfter.t = ItemBefore.t
        /\ ItemAfter.close = ItemBefore.close
        /\ (ItemAfter.k = "element") = (ItemBefore.k = "element")
        /\ Len(data) = Len(snapshot)
        /\ \A i \in 0..(Len(data) - 1) :
                i # call.offset => getData(data, i) = getData(snapshot, i)

C19_Witness ==
    /\ IsSetAnnotationIndexesAtOffset
    /\ call.indexes = <<>>
    /\ ItemBefore.k = "array" /\ ItemBefore.ann # <<>>
    /\ ItemAfter = Char(ItemBefore.t)
    /\ Len(data) > 1

(***************************************************************************)
(* Properties of sanitize (specification SpecSanitize)                     *)
(***************************************************************************)
\* sanitize( { plainText: true } ) has returned, on balanced data
Sanitizes == call.op = "sanitize" /\ flag # Throw /\ IsBalanced(snapshot)

Items(d) == {d[n] : n \in 1..Len(d)}

\* the indexes of the opening markers of the nodes that can contain content
ContentBranchOpenings(d) ==
    {i \in 0..(Len(d) - 1) :
        isOpenElementData(d, i) /\ canNodeContainContent(getType(d, i)) = T}

\* those of them that are directly followed by a closing marker
EmptyContentBranches(d) ==
    {i \in ContentBranchOpenings(d) : isCloseElementData(d, i + 1)}

ParagraphOpenings(d) ==
    {i \in 0..(Len(d) - 1) : isOpenElementData(d, i) /\ getType(d, i) = "paragraph"}

\* the characters of the data, in order, without their annotations
Text(d) ==
    LET chars == SelectSeq(d, LAMBDA item : item.k \in {"string", "array"})
    IN  [n \in 1..Len(chars) |-> chars[n].t]

\* what remains is plain text: the elements are paragraph or internalList
\* markers and no item carries an annotation
IsPlainText(d) ==
    \A item \in Items(d) :
        /\ item.k = "element" => item.t \in {"paragraph", "internalList"}
        /\ item.ann = <<>>

HeadingWithBoldText ==
    <<Open("heading"), AnnChar("a", <<0>>), Close("heading")>>

SanitizesUnderRules ==
    /\ call.op = "sanitize"
    /\ flag # Throw
    /\ ~call.rules.plainText
    /\ IsBalanced(snapshot)

\* the type conversion of the rules applied to a type
ConvertedType(rules, type) ==
    IF type \in DOMAIN rules.conversions THEN rules.conversions[type] ELSE type

\* the element is one the blacklist removes: its converted type is blacklisted
BlacklistRemoves(rules, item) ==
    item.k = "element" /\ ConvertedType(rules, item.t) \in rules.blacklist

\* item n of d with its converted type; a generated wrapper that directly
\* follows a removed opening marker is no longer generated
ConvertedItem(rules, d, n) ==
    LET item == IF d[n].k = "element"
                THEN [d[n] EXCEPT !.t = ConvertedType(rules, d[n].t)]
                ELSE d[n]
    IN  IF /\ isGenerated(item)
           /\ n > 1
           /\ BlacklistRemoves(rules, d[n - 1])
           /\ ~d[n - 1].close
        THEN deleteGenerated(item)
        ELSE item

\* the data with every element converted, without the elements whose converted
\* type is blacklisted
ConvertedAndFiltered(rules, d) ==
    SelectSeq([n \in 1..Len(d) |-> ConvertedItem(rules, d, n)],
              LAMBDA item : ~(item.k = "element" /\ item.t \in rules.blacklist))

\* no later check of sanitize applies: breaks are allowed or every break (by
\* converted type) is blacklisted, empty content branches are kept or every one
\* is blacklisted or still generated, and no annotation is blacklisted
OnlyConversionsAndBlacklistApply(rules, d) ==
    /\ \/ rules.allowBreaks
       \/ \A n \in 1..Len(d) :
              (d[n].k = "element" /\ ConvertedType(rules, d[n].t) = "break")
                  => BlacklistRemoves(rules, d[n])
    /\ \/ rules.keepEmptyContentBranches
       \/ \A i \in EmptyContentBranches(d) :
              \/ BlacklistRemoves(rules, getData(d, i))
              \/ isGenerated(ConvertedItem(rules, d, i + 1))
    /\ \A n \in 1..Len(annotationNames) : annotationNames[n] \notin rules.blacklist

\* C21: in sanitize the blacklist is tested against the converted type: where
\* no break is split and no empty branch removed, the data after sanitize is
\* the data before it with every element carrying its converted type on both
\* markers and without the elements whose converted type is blacklisted (so an
\* element of a blacklisted type that is converted to another type is kept, one
\* converted to a blacklisted type is removed), and a blacklisted break or
\* empty branch is removed by the blacklist alone: nothing is inserted for it.
C21_ConversionThenBlacklist ==
    (SanitizesUnderRules /\ OnlyConversionsAndBlacklistApply(call.rules, snapshot)) =>
        data = ConvertedAndFiltered(call.rules, snapshot)

\* a heading with content is sanitized with heading blacklisted and converted to
\* paragraph: it is kept as a paragraph
C21_Witness ==
    /\ SanitizesUnderRules
    /\ OnlyConversionsAndBlacklistApply(call.rules, snapshot)
    /\ "heading" \in call.rules.blacklist
    /\ ConvertedType(call.rules, "heading") = "paragraph"
    /\ snapshot = <<Open("heading"), Char("a"), Close("heading")>>
    /\ data = <<Open("paragraph"), Char("a"), Close("paragraph")>>

\* the opening markers of the empty content branches that are not generated
UngeneratedEmptyContentBranches(d) ==
    {i \in EmptyContentBranches(d) : ~isGenerated(getData(d, i))}

\* the nodes that can contain content hold characters and content nodes only
ContentBranchesHoldContent(d) ==
    \A p \in ContentBranchOpenings(d) :
        \A i \in (p + 1)..(MatchingClose(d, p + 1, 0) - 1) : IsContentItem(d, i)

\* C22: unless rules.keepEmptyContentBranches is set, after sanitize on balanced
\* data whose content branches hold content only, no opening element of a
\* content-capable type without internal.generated is directly followed by its
\* closing marker, whether the branch was empty before the call or became empty
\* during it.
C22_NoEmptyContentBranch ==
    (/\ call.op = "sanitize"
     /\ flag # Throw
     /\ IsBalanced(snapshot)
     /\ ContentBranchesHoldContent(snapshot)
     /\ ~call.rules.keepEmptyContentBranches) =>
        UngeneratedEmptyContentBranches(data) = {}

\* the opening markers of the breaks that lie inside a node that can contain
\* content
BreaksInContent(d) ==
    {i \in 0..(Len(d) - 1) :
        /\ isOpenElementData(d, i)
        /\ getType(d, i) = "break"
        /\ \E p \in ContentBranchOpenings(d) : p < i /\ i < MatchingClose(d, p + 1, 0)}

Smallest(S) == CHOOSE i \in S : \A j \in S : i <= j
Largest(S) == CHOOSE i \in S : \A j \in S : j <= i

\* the opening marker of the content branch around the item at i
ContentBranchAround(d, i) ==
    Largest({p \in ContentBranchOpenings(d) : p < i /\ i < MatchingClose(d, p + 1, 0)})

\* the break at i, in the content branch opened at p, handled as stated: deleted
\* when it is the only child of the branch, else replaced by a closing marker
\* of the branch and a copy of its opening marker
BreakHandled(d, i, p) ==
    IF p = i - 1 /\ MatchingClose(d, p + 1, 0) = i + 2
    THEN SubSeq(d, 1, i) \o SubSeq(d, i + 3, Len(d))
    ELSE SubSeq(d, 1, i) \o <<Close(d[p + 1].t), d[p + 1]>> \o SubSeq(d, i + 3, Len(d))

\* every break inside a content branch handled as stated, from left to right
RECURSIVE BreaksHandled(_)
BreaksHandled(d) ==
    IF BreaksInContent(d) = {} THEN d
    ELSE BreaksHandled(BreakHandled(d, Smallest(BreaksInContent(d)),
                                    ContentBranchAround(d, Smallest(BreaksInContent(d)))))

\* sanitize has returned with rules.allowBreaks unset, outside plainText mode,
\* on balanced data whose content branches hold content only
SplitsOnBreaks ==
    /\ SanitizesUnderRules
    /\ ~call.rules.allowBreaks
    /\ ContentBranchesHoldContent(snapshot)

\* C23: with rules.allowBreaks unset and not in plainText mode, after sanitize
\* no break remains inside a content element; with no other rule at work (nothing blacklisted or converted, empty
\* content branches kept) the data is the data before the call with each break
\* inside a content element, from left to right, deleted when it is the only
\* child of its parent and otherwise replaced by a closing marker of the open
\* content element followed by a copy of that element's opening marker.
C23_BreaksSplit ==
    SplitsOnBreaks =>
        /\ BreaksInContent(data) = {}
        /\ (/\ call.rules.blacklist = {}
            /\ call.rules.conversions = <<>>
            /\ call.rules.keepEmptyContentBranches) => data = BreaksHandled(snapshot)

\* a paragraph with a break between two letters has been split in two
C23_Witness ==
    /\ SplitsOnBreaks
    /\ call.rules.blacklist = {}
    /\ call.rules.conversions = <<>>
    /\ call.rules.keepEmptyContentBranches
    /\ snapshot = <<Open("paragraph"), Char("a"), Open("break"), Close("break"),
                    Char("a"), Close("paragraph")>>
    /\ data = <<Open("paragraph"), Char("a"), Close("paragraph"),
                Open("paragraph"), Char("a"), Close("paragraph")>>

(***************************************************************************)
(* Properties of hasContent (specification SpecContent)                    *)
(***************************************************************************)
\* the item at index i lies outside every internal node: it is no marker of
\* one and lies between no opening marker of one and its closing marker
OutsideInternalNodes(d, i) ==
    /\ ~(isElementData(d, i) /\ registry[getType(d, i)].isInternal)
    /\ ~\E p \in 0..(Len(d) - 1) :
           /\ isOpenElementData(d, p)
           /\ registry[getType(d, p)].isInternal
           /\ p < i
           /\ i < MatchingClose(d, p + 1, 0)

ItemsOutsideInternalNodes(d) == {i \in 0..(Len(d) - 1) : OutsideInternalNodes(d, i)}

\* C24: on balanced data of registered types, hasContent returns true when
\* more than two items lie outside internal nodes; when at most two do, it
\* returns true if the first item is an element whose type is neither
\* content-capable nor internal, and false otherwise.
C24_HasContent ==
    (call.op = "hasContent" /\ IsBalanced(data) /\ AllRegistered(data)) =>
        flag = IF Cardinality(ItemsOutsideInternalNodes(data)) > 2 THEN T
               ELSE IF /\ isElementData(data, 0)
                       /\ ~registry[getType(data, 0)].canContainContent
                       /\ ~registry[getType(data, 0)].isInternal
               THEN T
               ELSE F

\* a block image followed by the internal list: two items outside internal
\* nodes, and hasContent returns true
C24_Witness ==
    /\ call.op = "hasContent"
    /\ data = <<Open("blockImage"), Close("blockImage"), Open("internalList"),
                Close("internalList")>>
    /\ Cardinality(ItemsOutsideInternalNodes(data)) = 2
    /\ flag = T

(***************************************************************************)
(* Properties of the node factory (specification SpecFactory)              *)
(***************************************************************************)
FactoryQueries ==
    {"getDataElement", "getChildNodeTypes", "getParentNodeTypes",
     "getSuggestedParentNodeTypes", "canNodeHaveChildren", "canNodeHaveChildrenNotContent",
     "isNodeWrapped", "isNodeUnwrappable", "canNodeContainContent",
     "canNodeTakeAnnotationType", "isNodeContent", "isNodeFocusable",
     "doesNodeHaveSignificantWhitespace", "doesNodeHandleOwnChildren",
     "shouldIgnoreChildren", "isNodeInternal", "isNodeDeletable"}

\* the static property a query returns as it is registered
RegisteredProperty ==
    [ getChildNodeTypes |-> "childNodeTypes",
      getParentNodeTypes |-> "parentNodeTypes",
      getSuggestedParentNodeTypes |-> "suggestedParentNodeTypes",
      isNodeWrapped |-> "isWrapped",
      canNodeContainContent |-> "canContainContent",
      isNodeContent |-> "isContent",
      isNodeFocusable |-> "isFocusable",
      doesNodeHaveSignificantWhitespace |-> "hasSignificantWhitespace",
      doesNodeHandleOwnChildren |-> "handlesOwnChildren",
      shouldIgnoreChildren |-> "ignoreChildren",
      isNodeInternal |-> "isInternal",
      isNodeDeletable |-> "isDeletable" ]

\* the answer of the last query is the capability registered for statics
AnswersRegistered(statics) ==
    IF call.op \in {"getChildNodeTypes", "getParentNodeTypes", "getSuggestedParentNodeTypes"}
    THEN ret.value = statics[RegisteredProperty[call.op]]
    ELSE IF call.op \in DOMAIN RegisteredProperty
    THEN flag = B3(statics[RegisteredProperty[call.op]])
    ELSE IF call.op = "canNodeHaveChildren"
    THEN flag = B3(statics.childNodeTypes.null \/ statics.childNodeTypes.types # {})
    ELSE IF call.op = "canNodeHaveChildrenNotContent"
    THEN flag = B3(/\ statics.childNodeTypes.null \/ statics.childNodeTypes.types # {}
                   /\ ~statics.canContainContent
                   /\ ~statics.isContent)
    ELSE IF call.op = "isNodeUnwrappable"
    THEN flag = B3(statics.isWrapped /\ statics.isUnwrappable)
    ELSE IF call.op = "canNodeTakeAnnotationType"
    THEN flag = B3(\A name \in statics.blacklistedAnnotationTypes :
                       ~isInstanceOf(call.annotation, name))
    ELSE /\ ret.value.type = call.type
         /\ \A key \in DOMAIN call.attributes :
                ret.value.attributes[key] = call.attributes[key]
         /\ \A key \in DOMAIN statics.defaultAttributes \ DOMAIN call.attributes :
                ret.value.attributes[key] = statics.defaultAttributes[key]
         /\ DOMAIN ret.value.attributes =
                DOMAIN call.attributes \cup DOMAIN statics.defaultAttributes

\* C25: every capability query of the node factory throws for a type name
\* that is not registered, and for a registered type it does not throw and
\* returns the registered capability.
C25_UnknownNodeType ==
    call.op \in FactoryQueries =>
        IF call.type \in Registered
        THEN flag # Throw /\ AnswersRegistered(registry[call.type])
        ELSE flag = Throw

\* isNodeInternal has thrown for the name of an inherited property
C25_Witness ==
    /\ call.op = "isNodeInternal"
    /\ call.type = "constructor"
    /\ call.type \notin Registered
    /\ flag = Throw

(***************************************************************************)
(* Properties of trimOuterSpaceFromRange (specification SpecTrim)          *)
(***************************************************************************)
\* the item at index i is a whitespace character
IsSpaceAt(d, i) == isWhitespace(getCharacterData(d, i))

\* the indexes of the items of the range that are not whitespace
NonSpaceOf(d, range) == {i \in range.start..(range.end - 1) : ~IsSpaceAt(d, i)}

\* trimmed is range without its leading and trailing whitespace: an empty
\* range when range holds only whitespace
ExcludesOuterSpace(d, range, trimmed) ==
    IF NonSpaceOf(d, range) = {} THEN trimmed.start = trimmed.end
    ELSE /\ trimmed.start = Smallest(NonSpaceOf(d, range))
         /\ trimmed.end = Largest(NonSpaceOf(d, range)) + 1

\* C26: trimOuterSpaceFromRange returns a range that lies inside the input
\* range and excludes exactly its leading and trailing whitespace characters,
\* also when the range holds only whitespace or is preceded by whitespace.
C26_TrimmedInsideRange ==
    call.op = "trimOuterSpaceFromRange" =>
        /\ call.range.start <= ret.start
        /\ ret.start <= ret.end
        /\ ret.end <= call.range.end
        /\ ExcludesOuterSpace(data, call.range, ret)

(***************************************************************************)
(* The nearest cursor offset search of the surface                         *)
(***************************************************************************)
\* the cursor can stand at the offset: it is a content offset or has a slug
IsCursorOffset(offset) ==
    isContentOffset(data, offset) = T \/ offset \in surface.slugs

SearchedCursorOffset == call.op = "getNearestCorrectOffset"

\* C29: getNearestCorrectOffset returns the offset itself when it is a content
\* offset or has a slug; otherwise a result other than -1 is a content offset or
\* an offset with a slug, and searching again from the result in the same
\* direction returns the result unchanged.
C29_NearestCorrectOffset ==
    SearchedCursorOffset =>
        IF IsCursorOffset(call.offset) THEN ret = call.offset
        ELSE ret # -1 =>
                /\ ret \in 0..Len(data)
                /\ IsCursorOffset(ret)
                /\ getNearestCorrectOffset(data, surface.slugs, ret, call.direction) = ret

\* a search that left the offset and ended at a slug rather than at the content
\* offset found on the same side
C29_Witness ==
    /\ SearchedCursorOffset
    /\ ~IsCursorOffset(call.offset)
    /\ ret \in surface.slugs
    /\ isContentOffset(data, ret) = F
    /\ getNearestContentOffset(data, call.offset, Direction(signOf(call.direction))) \in 0..Len(data)

(***************************************************************************)
(* Paste events while a paste is in progress                               *)
(***************************************************************************)
\* a paste was accepted and its deferred callback has not run yet
PasteInProgress == surface.timers # <<>>

\* the step is the run of a deferred callback
CallbackRuns == Len(surface'.timers) < Len(surface.timers)

\* the step is a cancelled event: nothing but the record of the event changes
EventCancelled ==
    /\ surface'.handled = Handled(TRUE, "false")
    /\ data' = data
    /\ surface'.transactions = surface.transactions
    /\ surface'.focus = surface.focus
    /\ surface'.timers = surface.timers
    /\ surface'.selection = surface.selection

\* C30: while a paste is in progress every further paste event is cancelled
\* (default prevented, the handler returns false) and issues no transaction and
\* no focus change, so at most one paste is in flight on a surface.
C30_OnePasteInFlight ==
    /\ [](Len(surface.timers) <= 1)
    /\ [][PasteInProgress => CallbackRuns \/ EventCancelled]_vars

\* a paste event was cancelled while a paste was in progress, after an earlier
\* paste was completed
C30_Witness ==
    /\ PasteInProgress
    /\ surface.handled = Handled(TRUE, "false")
    /\ surface.transactions > 0
    /\ surface.focus = "paste"

(***************************************************************************)
(* Backspace and Delete on a selection                                     *)
(***************************************************************************)
DeletedSelection == call.op = "handleDelete"

\* the items of the range are gone and every other item is where it was, in order
ExactlyRemoved(before, after, range) ==
    /\ Len(after) = Len(before) - (range.end - range.start)
    /\ \A n \in 1..Len(after) :
        after[n] = before[IF n <= range.start THEN n ELSE n + (range.end - range.start)]

\* the items outside the range are kept, in order, around what is left of the range
OutsideKept(before, after, range) ==
    /\ Len(after) >= Len(before) - (range.end - range.start)
    /\ Len(after) <= Len(before)
    /\ SubSeq(after, 1, range.start) = SubSeq(before, 1, range.start)
    /\ SubSeq(after, Len(after) - (Len(before) - range.end) + 1, Len(after))
        = SubSeq(before, range.end + 1, Len(before))

\* the handler gave the surface model one transaction, the removal of the range
OneRemovalOf(range) ==
    /\ Len(surface.transactions) = 1
    /\ surface.transactions[1].type = "removal"
    /\ surface.transactions[1].offset = range.start
    /\ surface.transactions[1].length = range.end - range.start

CollapsedAtStartOf(range) ==
    surface.selection.from = range.start /\ surface.selection.to = range.start

\* the document would stay balanced without the items of the range
SpanRemovable(d, range) ==
    IsBalanced(SubSeq(d, 1, range.start) \o SubSeq(d, range.end + 1, Len(d)))

PressedEnter == call.op = "handleEnter"
\* the handler took the branch that splits the nodes around the cursor
EnterSplit == PressedEnter /\ call.how = "split"

IsOpening(item) == item.k = "element" /\ ~item.close
IsClosing(item) == item.k = "element" /\ item.close

\* opening markers less closing markers among the items a..b of d
Surplus(d, a, b) ==
    Cardinality({m \in a..b : IsOpening(d[m])}) - Cardinality({m \in a..b : IsClosing(d[m])})

\* the nodes open at the offset, by the index of their opening marker
NodesAround(d, offset) ==
    {n \in 1..offset : IsOpening(d[n]) /\ \A m \in (n + 1)..offset : Surplus(d, n + 1, m) >= 0}

\* the nodes Enter splits: from the innermost node outwards as far as the nodes
\* can be split, and with Shift the innermost one at most
SplitNodes(d, offset, shiftKey) ==
    {n \in NodesAround(d, offset) :
        /\ \A m \in NodesAround(d, offset) : m >= n => canBeSplit(d[m].t)
        /\ shiftKey => \A m \in NodesAround(d, offset) : m <= n}

\* the place of a split node counted from the innermost one
RankIn(nodes, n) == Cardinality({m \in nodes : m >= n})

\* the closing markers from the innermost to the outermost node, then the opening
\* elements from the outermost to the innermost
ClosesThenOpens(d, nodes, inserted) ==
    /\ Len(inserted) = 2 * Cardinality(nodes)
    /\ \A n \in nodes :
        /\ inserted[RankIn(nodes, n)] = Close(d[n].t)
        /\ inserted[Len(inserted) + 1 - RankIn(nodes, n)] = d[n]

InsertedAt(before, after, offset, inserted) ==
    after = SubSeq(before, 1, offset) \o inserted \o SubSeq(before, offset + 1, Len(before))

\* C28: when Enter splits at a collapsed cursor the inserted data is the closing
\* markers of the split nodes from the innermost to the outermost followed by
\* their cloned opening elements from the outermost to the innermost (/paragraph,
\* /listItem, listItem, paragraph in a list item), the document stays balanced,
\* and with Shift only the innermost splittable node is split.
C28_EnterSplits ==
    EnterSplit =>
        /\ Len(surface.transactions) = 1
        /\ surface.transactions[1].type = "insertion"
        /\ surface.transactions[1].offset = call.selection.from
        /\ SplitNodes(snapshot, call.selection.from, call.shiftKey) # {}
        /\ ClosesThenOpens(snapshot,
                           SplitNodes(snapshot, call.selection.from, call.shiftKey),
                           surface.transactions[1].data)
        /\ InsertedAt(snapshot, data, call.selection.from, surface.transactions[1].data)
        /\ IsBalanced(data)
        /\ call.shiftKey => Len(surface.transactions[1].data) = 2

\* Enter split a paragraph of a list item between two characters
C28_Witness ==
    /\ EnterSplit
    /\ ~call.shiftKey
    /\ surface.transactions[1].data =
        <<Close("paragraph"), Close("listItem"), Open("listItem"), Open("paragraph")>>
    /\ snapshot[call.selection.from].k = "string"
    /\ snapshot[call.selection.from + 1].k = "string"
    /\ surface.selection = Range(call.selection.from + 4, call.selection.from + 4)

(***************************************************************************)
(* clearLocalStorage                                                       *)
(***************************************************************************)
\* the entry is one of the surface ('ve-' at the start of its key) and older than
\* a day
ExpiredOwnEntry(entry) ==
    /\ Len(entry.key) >= 3
    /\ entry.key[1] = "v" /\ entry.key[2] = "e" /\ entry.key[3] = "-"
    /\ Now - entry.time > Day

\* C31: clearLocalStorage removes every entry whose key starts with 've-' and
\* whose time is more than 24 hours in the past, and no other entry, whatever
\* other keys the storage holds and in whatever order.
C31_ClearsExpiredEntries ==
    call.op = "clearLocalStorage" =>
        surface.storage = SelectSeq(snapshot, LAMBDA entry : ~ExpiredOwnEntry(entry))

(***************************************************************************)
(* onContentChange                                                         *)
(***************************************************************************)
\* the handler ran on a node whose model text was previous.text
ContentChanged ==
    call.op = "onContentChange" /\ Text(snapshot) = surface.previous.text

\* C32: when the model text of the node equals previous.text, the model text
\* equals next.text after the transactions of onContentChange, on each of its
\* paths.
C32_ModelFollowsText == ContentChanged => Text(data) = surface.next.text

\* the same on the paths that compare the two texts: the simple deletion and
\* the complex change
C32_ComparingPaths ==
    ContentChanged /\ surface.path \in {"deletion", "complex"} =>
        Text(data) = surface.next.text

(***************************************************************************)
(* Balance after sanitize (specification SpecSanitizeRules)                *)
(***************************************************************************)
\* the opening marker of the innermost node around the item at i
NodeAround(d, i) ==
    Largest({p \in 0..(Len(d) - 1) :
                isOpenElementData(d, p) /\ p < i /\ i < MatchingClose(d, p + 1, 0)})

\* every break inside a node that can contain content is a child of that node
BreaksDirectlyInContent(d) ==
    \A i \in BreaksInContent(d) : NodeAround(d, i) = ContentBranchAround(d, i)

\* sanitize has returned on balanced data
SanitizedBalanced == call.op = "sanitize" /\ flag # Throw /\ IsBalanced(snapshot)

Alternates(emitted) ==
    \A n \in 1..Len(emitted) :
        emitted[n] = IF n % 2 = 1 THEN "selectionStart" ELSE "selectionEnd"

\* the step emits exactly this event
Emits(name) == surface'.emitted = Append(surface.emitted, name)

\* the step emits an event exactly when it changes the selecting flag:
\* selectionStart when the flag becomes true, selectionEnd when it becomes false
EmitsOnFlip ==
    /\ Emits("selectionStart") <=> (~surface.selecting /\ surface'.selecting)
    /\ Emits("selectionEnd") <=> (surface.selecting /\ ~surface'.selecting)
    /\ surface'.emitted # surface.emitted => Emits("selectionStart") \/ Emits("selectionEnd")

\* C34: over any sequence of mouse-down, mouse-move, mouse-up, key-down and
\* key-up events the events selectionStart and selectionEnd strictly alternate
\* beginning with selectionStart; selectionStart is emitted only when the
\* selecting flag goes from false to true and selectionEnd only when it goes from
\* true to false.
C34_SelectionEventsAlternate ==
    [](Alternates(surface.emitted)) /\ [][EmitsOnFlip]_vars

\* a selection by dragging has ended and a selection with Shift and an arrow key
\* has started and ended
C34_Witness ==
    /\ surface.emitted = <<"selectionStart", "selectionEnd", "selectionStart", "selectionEnd">>
    /\ surface.last.type = "keyup"
    /\ ~surface.selecting

(***************************************************************************)
(* The end of a paste (specification SpecPasteFair)                        *)
(***************************************************************************)
\* the step is the run of a deferred callback and leaves the pasting flag unset
CallbackResets == CallbackRuns => ~surface'.pasting

ActiveSurfaceListed ==
    getSurface(surface) = NullSurface \/ getSurface(surface) \in Listed(surface)

\* the surface added to a target without an active surface is the active one
FirstAddedIsActive ==
    call.op = "addSurface" /\ ~call.hadSurface => getSurface(surface) = call.surface

\* C36: after any sequence of addSurface, surface focus events, setSurface,
\* clearSurfaces and destroy, getSurface() returns null or a surface that is in
\* the surfaces list of the target, never a destroyed surface; the first surface
\* added to a target without an active surface becomes the active one.
C36_ActiveSurfaceIsLive ==
    /\ ActiveSurfaceListed
    /\ getSurface(surface) \notin surface.destroyed
    /\ FirstAddedIsActive

(***************************************************************************)
(* The floating toolbar (specification SpecToolbar)                        *)
(***************************************************************************)
\* the step is a call of float or unfloat
FloatOrUnfloat == surface'.last \in {"float", "unfloat"}

\* a 'resize' event is emitted exactly when the floating flag changes
ResizeOnChange ==
    (surface'.resizes # surface.resizes) <=> (surface'.floating # surface.floating)

\* isFloating() after the last call of float or unfloat
FloatingAsCalled ==
    /\ surface.last = "float" => isFloating(surface)
    /\ surface.last = "unfloat" => ~isFloating(surface)

\* after unfloat() the recorded height is 0
HeightAfterUnfloat == surface.last = "unfloat" => surface.height = Height(0)

\* over any sequence of float and unfloat calls a 'resize' event is emitted
\* exactly when the floating flag changes value
C37_ResizeOnChange == [][FloatOrUnfloat => ResizeOnChange]_vars

\* C37: float() and unfloat() are idempotent: over any sequence of float and
\* unfloat calls isFloating() is true exactly after a float() not followed by
\* unfloat(), and after unfloat() the recorded height is 0 (the 'resize' events
\* are C37_ResizeOnChange).
C37_FloatUnfloat == FloatingAsCalled /\ HeightAfterUnfloat

\* the step is the run of a deferred callback
ToolbarCallbackRuns == surface'.timers < surface.timers

\* C38: the callback that runs 250 ms after a toolbar dialog has opened or closed
\* never changes whether the toolbar is floating: a floating toolbar is floating
\* afterwards, and after detach() or unfloat() the callback leaves the toolbar
\* un-floated.
C38_CallbackKeepsFloating ==
    [][ToolbarCallbackRuns => isFloating(surface') = isFloating(surface)]_vars

\* the callback has run on a floating toolbar and emitted its two events, and
\* the toolbar floats
C38_Witness ==
    /\ surface.last = "timeout"
    /\ isFloating(surface)
    /\ surface.resizes = 3

====
